---- MODULE Spec2Model ----
(***************************************************************************)
(* Document control engine of Bayou (DocControl): the revisioned change    *)
(* log of a document kept in a transactional file, the snapshot cache, the *)
(* OT apply/rebase loop of applyDelta, deltaAfter and validationStatus, as *)
(* concurrent async calls; and the file store's getFile.                   *)
(***************************************************************************)
EXTENDS Integers, Sequences, FiniteSets, TLC

(***************************************************************************)
(* Bounds of the model.                                                    *)
(***************************************************************************)
\* Total number of create / snapshot / applyDelta / validationStatus /
\* getFile calls started in a behaviour.
MaxCalls == 3

(***************************************************************************)
(* Program constants (DocControl.js).                                      *)
(***************************************************************************)
INITIAL_APPEND_RETRY_MSEC == 50
APPEND_RETRY_GROWTH_FACTOR == 5
MAX_APPEND_TIME_MSEC == 20000
MAX_CHANGE_READS_PER_TRANSACTION == 20

\* The concurrent callers (async call chains) on the one DocControl instance.
Procs == {"p1", "p2", "p3"}
\* The callers that make calls in Spec and SpecRetry; in SpecWait they are
\* the ones that wait in deltaAfter() while Writer appends.
Callers == {"p1", "p2"}
Writer == "p3"

(***************************************************************************)
(* The delta algebra (text deltas in the style of Quill). A delta is a     *)
(* sequence of unit operations: "_" retains one character, "-" deletes one *)
(* character, any other string inserts that character. Trailing retains    *)
(* are chopped, so that the empty delta is <<>>. A document is a delta of  *)
(* inserts only.                                                           *)
(***************************************************************************)
RETAIN == "_"
DELETE == "-"
EMPTY == <<>>

IsInsert(op) == op \notin {RETAIN, DELETE}

isEmpty(delta) == Len(delta) = 0

isDocument(delta) == \A i \in 1..Len(delta) : IsInsert(delta[i])

\* Drops the trailing retains of a delta.
RECURSIVE Chop(_)
Chop(ops) ==
  IF ops # <<>> /\ ops[Len(ops)] = RETAIN
    THEN Chop(SubSeq(ops, 1, Len(ops) - 1))
    ELSE ops

\* Number of delete operations that end `ops`.
RECURSIVE TrailingDeletes(_)
TrailingDeletes(ops) ==
  IF ops # <<>> /\ ops[Len(ops)] = DELETE
    THEN 1 + TrailingDeletes(SubSeq(ops, 1, Len(ops) - 1))
    ELSE 0

\* Appends an operation, keeping the canonical order: an insert that follows
\* a run of deletes is placed before that run.
Push(ops, op) ==
  IF IsInsert(op) /\ TrailingDeletes(ops) > 0
    THEN LET k == Len(ops) - TrailingDeletes(ops)
         IN  SubSeq(ops, 1, k) \o <<op>> \o SubSeq(ops, k + 1, Len(ops))
    ELSE Append(ops, op)

\* The next operation of an operation iterator: an exhausted iterator
\* yields retains.
PeekOp(ops) == IF ops = <<>> THEN RETAIN ELSE Head(ops)
RestOps(ops) == IF ops = <<>> THEN <<>> ELSE Tail(ops)

RECURSIVE ComposeIter(_, _, _)
ComposeIter(this, other, acc) ==
  IF this = <<>> /\ other = <<>> THEN Chop(acc)
  ELSE IF IsInsert(PeekOp(other))
    THEN ComposeIter(this, RestOps(other), Push(acc, PeekOp(other)))
  ELSE IF PeekOp(this) = DELETE
    THEN ComposeIter(RestOps(this), other, Push(acc, DELETE))
  ELSE LET thisOp == PeekOp(this)
           otherOp == PeekOp(other)
       IN  IF otherOp = RETAIN
             THEN ComposeIter(RestOps(this), RestOps(other), Push(acc, thisOp))
           ELSE IF thisOp = RETAIN
             THEN ComposeIter(RestOps(this), RestOps(other), Push(acc, DELETE))
           ELSE ComposeIter(RestOps(this), RestOps(other), acc)

\* this.compose(other): the delta that has the effect of `this` then `other`.
Compose(this, other) == ComposeIter(this, other, <<>>)

RECURSIVE TransformIter(_, _, _, _)
TransformIter(this, other, priority, acc) ==
  IF this = <<>> /\ other = <<>> THEN Chop(acc)
  ELSE IF IsInsert(PeekOp(this)) /\ (priority \/ ~IsInsert(PeekOp(other)))
    THEN TransformIter(RestOps(this), other, priority, Push(acc, RETAIN))
  ELSE IF IsInsert(PeekOp(other))
    THEN TransformIter(this, RestOps(other), priority, Push(acc, PeekOp(other)))
  ELSE LET thisOp == PeekOp(this)
           otherOp == PeekOp(other)
       IN  IF thisOp = DELETE
             THEN TransformIter(RestOps(this), RestOps(other), priority, acc)
           ELSE IF otherOp = DELETE
             THEN TransformIter(RestOps(this), RestOps(other), priority,
                                Push(acc, DELETE))
           ELSE TransformIter(RestOps(this), RestOps(other), priority,
                              Push(acc, RETAIN))

\* this.transform(other, priority): `other` rebased on top of `this`; with
\* priority TRUE `this` is taken to have been applied first.
Transform(this, other, priority) == TransformIter(this, other, priority, <<>>)

\* Length of the longest common prefix of two documents.
RECURSIVE CommonPrefix(_, _)
CommonPrefix(a, b) ==
  IF a # <<>> /\ b # <<>> /\ Head(a) = Head(b)
    THEN 1 + CommonPrefix(Tail(a), Tail(b))
    ELSE 0

\* Length of the longest common suffix of two documents.
RECURSIVE CommonSuffix(_, _)
CommonSuffix(a, b) ==
  IF a # <<>> /\ b # <<>> /\ a[Len(a)] = b[Len(b)]
    THEN 1 + CommonSuffix(SubSeq(a, 1, Len(a) - 1), SubSeq(b, 1, Len(b) - 1))
    ELSE 0

\* this.diff(other) of two documents: a delta which composed onto `this`
\* gives `other`: retain the common prefix, insert what `other` has in the
\* middle, delete what `this` has in the middle.
Diff(this, other) ==
  LET p == CommonPrefix(this, other)
      s == CommonSuffix(SubSeq(this, p + 1, Len(this)),
                        SubSeq(other, p + 1, Len(other)))
      ins == SubSeq(other, p + 1, Len(other) - s)
      ndel == Len(this) - s - p
  IN  Chop([i \in 1..p |-> RETAIN] \o ins \o [i \in 1..ndel |-> DELETE])


(***************************************************************************)
(* State.                                                                  *)
(***************************************************************************)
VARIABLES
  fileExists,      \* whether the underlying file exists (BaseFile.exists())
  formatVersion,   \* value stored at /format_version, or NoVersion
  revisionNumber,  \* value stored at /revision_number, or Absent
  changes,         \* the stored changes: revision number -> change, for the
                   \* paths /change/<n> that are not empty
  fileRevNum,      \* the file's revision number: the number of transactions
                   \* that have written to it
  snapshots,       \* DocControl._snapshots: revision number -> contents
  proc,            \* the state of each caller's async call
  callsStarted,    \* number of calls started so far
  createsStarted,  \* number of create calls started so far
  lastObserved,    \* the last document revision number an observer read
  origin,          \* for each appended change: the call that appended it
  clock,           \* the wall clock: what Timestamp.now() returns
  cache,           \* BaseFileStore._cache: file ID -> pending or resolved file
  files,           \* LocalFileStore._files: file ID -> LocalFile instance
  constructed,     \* the LocalFile instances constructed so far, in order:
                   \* the file ID of each
  transactionSpec, \* the TransactionSpec whose construction was last asked
                   \* for: its arguments, its _ops and the error thrown
  carets,          \* the caret sessions of the document so far: caret ID ->
                   \* its state and the time of its last update
  trafficSignal,   \* the fields of the TrafficSignal instance
  signalCalls,     \* the allowTrafficAt() calls so far: the argument and
                   \* outcome of the last one, the last value returned, and
                   \* the time of the last return of true after a return of
                   \* false
  apiClient,       \* the fields of the ApiClient instance
  sockets,         \* the WebSocket objects the ApiClient has constructed
  apiCalls,        \* the calls of _send() made so far and what became of
                   \* the promise of each
  docSession,      \* the fields of the DocSession instance, and the
                   \* ApiClient instances it has constructed
  sessionCalls,    \* the state of each caller's getSessionProxy() call
  serverSessions,  \* the session set-ups the server has been asked for
  versionCheck     \* the last call of VersionNumber.check(): its arguments
                   \* and its outcome

vars == <<fileExists, formatVersion, revisionNumber, changes, fileRevNum,
          snapshots, proc, callsStarted, createsStarted, lastObserved, origin,
          clock, cache, files, constructed, transactionSpec,
          carets, trafficSignal, signalCalls, apiClient, sockets, apiCalls,
          docSession, sessionCalls, serverSessions, versionCheck>>

fileVars == <<fileExists, formatVersion, revisionNumber, changes, fileRevNum>>

\* The file store's instance maps.
storeVars == <<cache, files, constructed>>

\* The state of the modules around DocControl and the file store.
trafficVars == <<trafficSignal, signalCalls>>
apiVars == <<apiClient, sockets, apiCalls>>
sessionVars == <<docSession, sessionCalls, serverSessions>>
appVars == <<transactionSpec, carets, trafficVars, apiVars, sessionVars,
             versionCheck>>

\* The state of DocControl, its file and the file store.
docVars == <<fileExists, formatVersion, revisionNumber, changes, fileRevNum,
             snapshots, proc, callsStarted, createsStarted, lastObserved,
             origin, clock, cache, files, constructed>>

\* No TransactionSpec has been constructed.
NoTransactionSpec ==
  [constructed |-> FALSE, args |-> <<>>, ops |-> <<>>, error |-> "none"]

\* No time: no call has given one.
NoTime == -2

\* The TrafficSignal instance as its constructor leaves it.
NewTrafficSignal ==
  [allowTraffic |-> TRUE, allowTrafficAtMsec |-> 0,
   forceTrafficUntilMsec |-> 0, shuttingDown |-> FALSE, healthy |-> TRUE,
   loadFactor |-> 0, currentTimeMsec |-> 0]

\* The ApiClient instance as its constructor leaves it: _resetConnection()
\* has run. The socket is given by its position in sockets, 0 for null.
NewApiClient ==
  [ws |-> 0, nextId |-> 0, callbacks |-> <<>>, pendingPayloads |-> <<>>]

\* The DocSession instance as its constructor leaves it, for a SessionInfo
\* without a caret ID: 0 stands for null.
NewDocSession ==
  [apiClient |-> 0, sessionProxyPromise |-> 0, caretId |-> 0,
   clients |-> <<>>, promises |-> <<>>]

\* The callers of getSessionProxy(), and a caller that has made no call.
SessionCallers == {"s1", "s2"}
IdleSessionCall == [pc |-> "idle", api |-> 0, promise |-> 0, proxy |-> 0]

\* JavaScript's undefined, for an argument left out.
Undefined == -2

\* The modules around DocControl before any of their operations has run.
InitApp ==
  /\ transactionSpec = NoTransactionSpec
  /\ carets = <<>>
  /\ trafficSignal = NewTrafficSignal
  /\ signalCalls = [timeMsec |-> NoTime, outcome |-> "none",
                    returned |-> "none", goAtMsec |-> NoTime]
  /\ apiClient = NewApiClient
  /\ sockets = <<>>
  /\ apiCalls = <<>>
  /\ docSession = NewDocSession
  /\ sessionCalls = [p \in SessionCallers |-> IdleSessionCall]
  /\ serverSessions = <<>>
  /\ versionCheck = [called |-> FALSE, value |-> [type |-> "number", n |-> 0],
                     max |-> Undefined, outcome |-> "none"]

Absent == -1
NullRev == -1
NoVersion == "none"
\* The format version the DocControl instance was constructed with.
FORMAT_VERSION == "v1"
NoAuthor == "null"

NoSnap == [revNum |-> NullRev, contents |-> EMPTY]
NoResult == [revNum |-> NullRev, delta |-> EMPTY]

\* new DocumentChange(revNum, timestamp, delta, authorId)
DocumentChange(revNum, timestamp, delta, authorId) ==
  [revNum |-> revNum, timestamp |-> timestamp, delta |-> delta,
   authorId |-> authorId]

\* DocumentChange.firstChange(): the empty, authorless change #0.
firstChange == DocumentChange(0, 0, EMPTY, NoAuthor)

\* Timestamp.now()
Now == clock

\* The state of a caller that is not in a call.
IdleProc ==
  [kind |-> "none", pc |-> "idle", phase |-> "none",
   revNum |-> NullRev, baseRevNum |-> NullRev, delta |-> EMPTY,
   authorId |-> NoAuthor, contents |-> <<>>,
   base |-> NoSnap, expected |-> NoSnap, current |-> NoSnap,
   dNext |-> EMPTY,
   attemptCount |-> 0, retryDelayMsec |-> 0, retryTotalMsec |-> 0,
   i |-> 0, startInclusive |-> 0, endExclusive |-> 0, composed |-> EMPTY,
   reads |-> <<>>,
   fileRevNum |-> 0, timestamp |-> 0,
   status |-> "none", fileId |-> "none", file |-> 0,
   result |-> NoResult, error |-> "none"]

\* A call's record once the call has returned `result`: its working state
\* is gone, its arguments and its result are kept (and of a deltaAfter call,
\* whether it had to wait).
Return(pr, result) ==
  [IdleProc EXCEPT !.kind = pr.kind, !.pc = "done",
                   !.phase = IF pr.kind = "deltaAfter" THEN pr.phase ELSE "none",
                   !.baseRevNum = pr.baseRevNum, !.delta = pr.delta,
                   !.authorId = pr.authorId, !.contents = pr.contents,
                   !.result = result]

\* A call's record once the call has thrown an error of kind `error`.
Throw(pr, error) ==
  [IdleProc EXCEPT !.kind = pr.kind, !.pc = "error", !.error = error]

\* A validationStatus() call's record once the call has returned `status`.
ReturnStatus(pr, status) ==
  [IdleProc EXCEPT !.kind = pr.kind, !.pc = "done", !.status = status]

Terminal(pr) == pr.pc \in {"idle", "done", "error"}

(***************************************************************************)
(* The file store: the transaction primitives DocControl uses.             *)
(***************************************************************************)
\* FileOp.op_checkPathExists(Paths.forRevNum(n))
ChangePathExists(n) == n \in DOMAIN changes

\* FileOp.op_checkPathEmpty(changePath) of the append transaction.
NoPathEmptyCheck(n) == TRUE
AppendPathEmpty(n) == n \notin DOMAIN changes

\* FileOp.op_checkPathEmpty(FORMAT_VERSION), op_checkPathEmpty(REVISION_NUMBER)
\* of the create transaction.
CreateNoCheck == TRUE
CreatePathsEmpty == formatVersion = NoVersion /\ revisionNumber = Absent

\* The error a transaction on the revision number path ends with, or "none".
RevNumsError ==
  IF ~fileExists THEN "file_not_found"
  ELSE IF revisionNumber = Absent THEN "path_not_found"
  ELSE "none"

\* RevisionNumber.maxInc(revNum, max): whether revNum passes, being at most
\* max.
MaxIncOffByOne(revNum, max) == revNum <= max + 1
MaxInc(revNum, max) == revNum <= max

(***************************************************************************)
(* _readChangeRange() and _composeRevisions()                              *)
(***************************************************************************)
\* A stored value that does not decode to a DocumentChange.
Undecodable ==
  [revNum |-> NullRev, timestamp |-> 0, delta |-> EMPTY,
   authorId |-> "undecodable"]

\* DocumentChange.check(data.get(p)) passes for the value read.
Decodes(change) == change # Undecodable

\* The error _readChangeRange(start, endExc) throws, or "none": too long a
\* range is refused before any transaction; the transaction fails unless
\* every path exists (op_checkPathExists), and every value read has to be
\* a change. An empty range only has its start checked against the current
\* revision number.
ReadChangeRangeError(start, endExc) ==
  IF endExc - start > MAX_CHANGE_READS_PER_TRANSACTION THEN "bad_use"
  ELSE IF start = endExc
    THEN IF start # 0 /\ ~MaxInc(start, revisionNumber + 1)
           THEN "bad_value" ELSE "none"
  ELSE IF \E n \in start..(endExc - 1) : ~ChangePathExists(n)
    THEN "path_not_found"
  ELSE IF \E n \in start..(endExc - 1) : ~Decodes(changes[n])
    THEN "undecodable"
  ELSE "none"

\* What a caller of _readChangeRange(start, endExc) gets thrown, or "none":
\* each call reads the stored changes anew, whatever earlier calls met.
ReadFailureFailFast(start, endExc) ==
  IF \E q \in Procs : proc[q].pc = "error" /\ proc[q].error = "path_not_found"
    THEN "path_not_found"
  ELSE IF \E q \in Procs : proc[q].pc = "error" /\ proc[q].error = "undecodable"
    THEN "undecodable"
  ELSE ReadChangeRangeError(start, endExc)
ReadFailure(start, endExc) == ReadChangeRangeError(start, endExc)

\* End (exclusive) of the batch of changes read by one transaction of the
\* _composeRevisions() loop.
BatchEndUnbounded(i, endExclusive) == endExclusive
BatchEnd(i, endExclusive) ==
  IF i + MAX_CHANGE_READS_PER_TRANSACTION < endExclusive
    THEN i + MAX_CHANGE_READS_PER_TRANSACTION
    ELSE endExclusive

\* The read transactions a call has issued, with the one _readChangeRange(
\* start, endExc) issues, if it issues one.
IssueRead(reads, start, endExc) ==
  IF endExc - start > MAX_CHANGE_READS_PER_TRANSACTION \/ start = endExc
    THEN reads
    ELSE Append(reads, <<start, endExc>>)

\* _composeRevisions(baseDelta, startInclusive, endExclusive) up to its
\* first await: the first batch is requested.
ComposeRevisions(pr, baseDelta, startInclusive, endExclusive) ==
  [pr EXCEPT !.i = startInclusive,
             !.startInclusive = startInclusive,
             !.endExclusive = endExclusive,
             !.composed = baseDelta,
             !.reads = IssueRead(<<>>, startInclusive,
                                 BatchEnd(startInclusive, endExclusive))]

\* The _composeRevisions() loop once a batch ending at `end` has been
\* composed into `result`, with more to read: the next batch is requested.
ComposeNext(pr, result, end) ==
  [pr EXCEPT !.i = end, !.composed = result,
             !.reads = IssueRead(pr.reads, end, BatchEnd(end, pr.endExclusive))]

(***************************************************************************)
(* snapshot(revNum)                                                        *)
(***************************************************************************)
\* The cached snapshot with the highest revision number <= revNum, if any:
\* the backward search of snapshot().
CachedBase(revNum) ==
  LET cached == {n \in DOMAIN snapshots : n <= revNum}
  IN  IF cached = {} THEN NoSnap
      ELSE LET n == CHOOSE m \in cached : \A k \in cached : k <= m
           IN  [revNum |-> n, contents |-> snapshots[n]]

\* this._snapshots.set(revNum, result)
CacheSnapshotAtNext(revNum, contents) == ((revNum + 1) :> contents) @@ snapshots
CacheSnapshot(revNum, contents) == (revNum :> contents) @@ snapshots

\* The first revision forward composition starts at, given the base found.
ComposeStartOffByOne(base) == IF base = NoSnap THEN 0 ELSE base.revNum
ComposeStart(base) == IF base = NoSnap THEN 0 ELSE base.revNum + 1

\* result.compose(c.delta) for the changes from..to-1, in order.
RECURSIVE ComposeChanges(_, _, _)
ComposeChanges(result, from, to) ==
  IF from >= to THEN result
  ELSE ComposeChanges(Compose(result, changes[from].delta), from + 1, to)

(***************************************************************************)
(* applyDelta(): the synchronous code between two awaits.                  *)
(***************************************************************************)
\* The delta rebased on top of the server's changes (step 2 of
\* _applyDeltaTo).
RebaseClientFirst(dServer, dClient) == Transform(dServer, dClient, FALSE)
Rebase(dServer, dClient) == Transform(dServer, dClient, TRUE)

\* Whether the implied expected result is acceptable as a snapshot's
\* contents.
ValidContents(contents) == isDocument(contents)

\* applyDelta() once the snapshot of the base revision is there.
StartAttempts(pr, base) ==
  [pr EXCEPT !.base = base,
             !.expected = [revNum |-> pr.baseRevNum + 1,
                           contents |-> Compose(base.contents, pr.delta)],
             !.retryDelayMsec = INITIAL_APPEND_RETRY_MSEC,
             !.retryTotalMsec = 0,
             !.attemptCount = 1,
             !.phase = "current", !.pc = "revnums", !.revNum = NullRev]
AfterBaseNoShortCircuit(pr, base) == StartAttempts(pr, base)
AfterBase(pr, base) ==
  IF isEmpty(pr.delta)
    THEN Return(pr, [revNum |-> pr.baseRevNum, delta |-> EMPTY])
  ELSE IF ~ValidContents(Compose(base.contents, pr.delta))
    THEN Throw(pr, "bad_value")
  ELSE StartAttempts(pr, base)

\* The timestamp _appendDelta() puts on the change it builds: the time of
\* the attempt, not of an earlier one.
AttemptTimestampKept(pr) == IF pr.attemptCount > 1 THEN pr.timestamp ELSE Now
AttemptTimestamp(pr) == Now

\* _applyDeltaTo() up to its first await, once the current snapshot is
\* there.
AfterCurrent(pr, current) ==
  IF pr.base.revNum = current.revNum
    THEN [pr EXCEPT !.current = current, !.dNext = pr.delta,
                    !.timestamp = AttemptTimestamp(pr), !.pc = "append"]
    ELSE ComposeRevisions([pr EXCEPT !.current = current,
                                     !.pc = "server_compose"],
                          EMPTY, pr.base.revNum + 1, current.revNum + 1)

\* _applyDeltaTo() steps (4) and (5), once the snapshot of the new revision
\* is there.
AfterNext(pr, rNext) ==
  Return(pr, [revNum |-> rNext.revNum,
              delta |-> Diff(pr.expected.contents, rNext.contents)])

\* What a call does with the snapshot that snapshot() returned to it.
AfterSnapshot(pr, snap) ==
  CASE pr.phase = "base" -> AfterBase(pr, snap)
    [] pr.phase = "current" -> AfterCurrent(pr, snap)
    [] pr.phase = "next" -> AfterNext(pr, snap)
    [] OTHER -> Return(pr, [revNum |-> snap.revNum, delta |-> snap.contents])


(***************************************************************************)
(* Initial state: the DocControl instance has been constructed on a file   *)
(* that does not exist yet.                                                *)
(***************************************************************************)
Init ==
  /\ fileExists = FALSE
  /\ formatVersion = NoVersion
  /\ revisionNumber = Absent
  /\ changes = <<>>
  /\ fileRevNum = 0
  /\ snapshots = <<>>
  /\ proc = [p \in Procs |-> IdleProc]
  /\ callsStarted = 0
  /\ createsStarted = 0
  /\ lastObserved = Absent
  /\ origin = <<>>
  /\ clock = 0
  /\ cache = <<>>
  /\ files = <<>>
  /\ constructed = <<>>
  /\ InitApp

(***************************************************************************)
(* create(contents)                                                        *)
(***************************************************************************)
\* The timestamp of change #1, taken when create() builds the change.
CreateTimestamp(contents) == IF contents = <<>> THEN 0 ELSE Now

\* The call of create(): runs up to `await this._file.create()`.
\* `contents` is <<>> for null and <<delta>> for a delta.
create(p, contents) ==
  /\ Terminal(proc[p])
  /\ createsStarted' = createsStarted + 1
  /\ proc' = [proc EXCEPT ![p] = [IdleProc EXCEPT !.kind = "create",
                                                  !.pc = "create_file",
                                                  !.contents = contents,
                                                  !.timestamp =
                                                    CreateTimestamp(contents)]]
  /\ UNCHANGED <<fileVars, snapshots, callsStarted, lastObserved, origin,
                 clock, storeVars, appVars>>

\* `await this._file.create()` completes: the file exists from now on (an
\* existing file is left alone).
create_file(p) ==
  /\ proc[p].pc = "create_file"
  /\ fileExists' = TRUE
  /\ proc' = [proc EXCEPT ![p].pc = "create_transact"]
  /\ UNCHANGED <<formatVersion, revisionNumber, changes, fileRevNum, snapshots,
                 callsStarted, createsStarted, lastObserved, origin,
                 clock, storeVars, appVars>>

\* Initial document revision number of create().
CreateRevNumAlwaysOne(contents) == 1
CreateRevNum(contents) == IF contents = <<>> THEN 0 ELSE 1

\* The changes create() writes: change #0, and change #1 when there are
\* contents.
CreateChanges(contents, timestamp) ==
  IF contents = <<>>
    THEN (0 :> firstChange)
    ELSE (0 :> firstChange)
           @@ (1 :> DocumentChange(1, timestamp, contents[1], NoAuthor))

\* `await this._file.transact(spec)` of create() completes, and the cached
\* snapshots are dropped if it succeeded.
create_transact(p) ==
  LET pr == proc[p] IN
  /\ pr.pc = "create_transact"
  /\ IF CreatePathsEmpty
       THEN /\ formatVersion' = FORMAT_VERSION
            /\ revisionNumber' = CreateRevNum(pr.contents)
            /\ changes' = CreateChanges(pr.contents, pr.timestamp) @@ changes
            /\ fileRevNum' = fileRevNum + 1
            /\ snapshots' = <<>>
            /\ proc' = [proc EXCEPT ![p] = Return(pr, NoResult)]
       ELSE /\ proc' = [proc EXCEPT ![p] = Throw(pr, "path_not_empty")]
            /\ UNCHANGED <<formatVersion, revisionNumber, changes, fileRevNum,
                           snapshots>>
  /\ UNCHANGED <<fileExists, callsStarted, createsStarted, lastObserved, origin,
                 clock, storeVars, appVars>>

(***************************************************************************)
(* snapshot(revNum) as a call of its own, and as called by applyDelta().   *)
(***************************************************************************)
\* The call of snapshot(revNum): runs up to `await this._currentRevNums()`.
snapshot(p, revNum) ==
  /\ Terminal(proc[p])
  /\ callsStarted' = callsStarted + 1
  /\ proc' = [proc EXCEPT ![p] = [IdleProc EXCEPT !.kind = "snapshot",
                                                  !.pc = "revnums",
                                                  !.phase = "snapshot",
                                                  !.revNum = revNum,
                                                  !.baseRevNum = revNum]]
  /\ UNCHANGED <<fileVars, snapshots, createsStarted, lastObserved, origin,
                 clock, storeVars, appVars>>

\* `await this._currentRevNums()` of snapshot() completes; the revision
\* number is checked and the cache searched for a base.
snapshot_revnums(p) ==
  LET pr == proc[p] IN
  /\ pr.pc = "revnums"
  /\ IF RevNumsError # "none"
       THEN proc' = [proc EXCEPT ![p] = Throw(pr, RevNumsError)]
       ELSE LET currentRevNum == revisionNumber
                revNum == IF pr.revNum = NullRev THEN currentRevNum
                          ELSE pr.revNum
                base == CachedBase(revNum)
            IN  IF ~MaxInc(revNum, currentRevNum)
                  THEN proc' = [proc EXCEPT ![p] = Throw(pr, "bad_value")]
                ELSE IF base # NoSnap /\ base.revNum = revNum
                  THEN proc' = [proc EXCEPT ![p] = AfterSnapshot(pr, base)]
                ELSE proc' = [proc EXCEPT ![p] =
                       ComposeRevisions([pr EXCEPT !.pc = "compose",
                                                   !.revNum = revNum],
                                        base.contents, ComposeStart(base),
                                        revNum + 1)]
  /\ UNCHANGED <<fileVars, snapshots, callsStarted, createsStarted,
                 lastObserved, origin,
                 clock, storeVars, appVars>>

\* One `await this._readChangeRange(i, end)` of the _composeRevisions() loop
\* completes, for snapshot(); after the last one the snapshot is cached and
\* returned.
snapshot_compose(p) ==
  LET pr == proc[p]
      end == BatchEnd(pr.i, pr.endExclusive)
  IN
  /\ pr.pc = "compose"
  /\ IF ReadFailure(pr.i, end) # "none"
       THEN /\ proc' = [proc EXCEPT ![p] = Throw(pr, ReadFailure(pr.i, end))]
            /\ UNCHANGED snapshots
       ELSE LET result == ComposeChanges(pr.composed, pr.i, end) IN
            IF end < pr.endExclusive
              THEN /\ proc' = [proc EXCEPT ![p] = ComposeNext(pr, result, end)]
                   /\ UNCHANGED snapshots
              ELSE /\ snapshots' = CacheSnapshot(pr.revNum, result)
                   /\ proc' = [proc EXCEPT ![p] =
                        AfterSnapshot(pr, [revNum |-> pr.revNum,
                                           contents |-> result])]
  /\ UNCHANGED <<fileVars, callsStarted, createsStarted, lastObserved, origin,
                 clock, storeVars, appVars>>


(***************************************************************************)
(* applyDelta(baseRevNum, delta, authorId)                                 *)
(***************************************************************************)
\* The author a caller's DocForAuthor stamps on its changes.
AuthorOf(p) == p

\* The call of applyDelta(): runs up to the first await, which is in
\* `this.snapshot(baseRevNum)`.
applyDelta(p, baseRevNum, delta) ==
  /\ Terminal(proc[p])
  /\ callsStarted' = callsStarted + 1
  /\ proc' = [proc EXCEPT ![p] = [IdleProc EXCEPT !.kind = "applyDelta",
                                                  !.pc = "revnums",
                                                  !.phase = "base",
                                                  !.revNum = baseRevNum,
                                                  !.baseRevNum = baseRevNum,
                                                  !.delta = delta,
                                                  !.authorId = AuthorOf(p)]]
  /\ UNCHANGED <<fileVars, snapshots, createsStarted, lastObserved, origin,
                 clock, storeVars, appVars>>

\* One `await this._readChangeRange(i, end)` of the _composeRevisions() loop
\* completes, for step (1) of _applyDeltaTo(); after the last one the delta
\* is rebased (2) and, unless it came out empty, the append (3) is started.
applyDeltaTo_compose(p) ==
  LET pr == proc[p]
      end == BatchEnd(pr.i, pr.endExclusive)
  IN
  /\ pr.pc = "server_compose"
  /\ IF ReadFailure(pr.i, end) # "none"
       THEN proc' = [proc EXCEPT ![p] = Throw(pr, ReadFailure(pr.i, end))]
       ELSE LET dServer == ComposeChanges(pr.composed, pr.i, end)
                dNext == Rebase(dServer, pr.delta)
            IN  IF end < pr.endExclusive
                  THEN proc' = [proc EXCEPT ![p] = ComposeNext(pr, dServer, end)]
                ELSE IF isEmpty(dNext)
                  THEN proc' = [proc EXCEPT ![p] =
                         Return(pr, [revNum |-> pr.current.revNum,
                                     delta |-> EMPTY])]
                ELSE proc' = [proc EXCEPT ![p].dNext = dNext,
                                          ![p].timestamp = AttemptTimestamp(pr),
                                          ![p].pc = "append"]
  /\ UNCHANGED <<fileVars, snapshots, callsStarted, createsStarted,
                 lastObserved, origin,
                 clock, storeVars, appVars>>

\* The revision number _appendDelta() stores at /revision_number.
StoredRevNumStale(baseRevNum) == baseRevNum
StoredRevNum(baseRevNum) == baseRevNum + 1

\* The change _appendDelta() writes.
AppendedChangeNoAuthor(revNum, timestamp, delta, authorId) ==
  DocumentChange(revNum, timestamp, delta, NoAuthor)
AppendedChange(revNum, timestamp, delta, authorId) ==
  DocumentChange(revNum, timestamp, delta, authorId)

\* What the catch clause of _appendDelta() makes of a path_not_empty error,
\* and the retry loop of applyDelta() of the resulting null: another attempt
\* after a delay, unless the attempts have taken too long.
LostRaceRethrown(pr) == Throw(pr, "path_not_empty")
LostRaceNoBudget(pr) == [pr EXCEPT !.pc = "sleep"]
LostRace(pr) ==
  IF pr.retryTotalMsec >= MAX_APPEND_TIME_MSEC
    THEN Throw(pr, "too_many_retries")
    ELSE [pr EXCEPT !.pc = "sleep"]

\* The catch clause of _appendDelta(), for a transaction that failed with an
\* error of kind `e`: path_not_empty is a lost race, any other error is
\* thrown on as it is.
AppendFailedRetried(pr, e) == LostRace(pr)
AppendFailed(pr, e) ==
  IF e = "path_not_empty" THEN LostRace(pr) ELSE Throw(pr, e)

\* What _applyDeltaTo() does once _appendDelta() returned revNum: on the
\* easy path it returns, on the hard path it asks for the new snapshot.
AppendedFastWrongRevNum(pr, revNum) ==
  IF pr.base.revNum = pr.current.revNum
    THEN Return(pr, [revNum |-> pr.base.revNum, delta |-> EMPTY])
    ELSE [pr EXCEPT !.pc = "revnums", !.phase = "next", !.revNum = revNum]
Appended(pr, revNum) ==
  IF pr.base.revNum = pr.current.revNum
    THEN Return(pr, [revNum |-> revNum, delta |-> EMPTY])
    ELSE [pr EXCEPT !.pc = "revnums", !.phase = "next", !.revNum = revNum]

\* `await this._file.transact(spec)` of _appendDelta() completes.
appendDelta(p) ==
  LET pr == proc[p]
      baseRevNum == pr.current.revNum
      revNum == baseRevNum + 1
  IN
  /\ pr.pc = "append"
  /\ IF isEmpty(pr.dNext)
       THEN /\ proc' = [proc EXCEPT ![p] = Throw(pr, "empty_delta")]
            /\ UNCHANGED <<revisionNumber, changes, fileRevNum, origin>>
     ELSE IF ~fileExists
       THEN /\ proc' = [proc EXCEPT ![p] = Throw(pr, "file_not_found")]
            /\ UNCHANGED <<revisionNumber, changes, fileRevNum, origin>>
     ELSE IF ~AppendPathEmpty(revNum)
       THEN /\ proc' = [proc EXCEPT ![p] = AppendFailed(pr, "path_not_empty")]
            /\ UNCHANGED <<revisionNumber, changes, fileRevNum, origin>>
     ELSE /\ changes' = (revNum :> AppendedChange(revNum, pr.timestamp,
                                                  pr.dNext, pr.authorId))
                          @@ changes
          /\ revisionNumber' = StoredRevNum(baseRevNum)
          /\ fileRevNum' = fileRevNum + 1
          /\ origin' = (revNum :> [proc |-> p, baseRevNum |-> pr.baseRevNum,
                                   delta |-> pr.delta]) @@ origin
          /\ proc' = [proc EXCEPT ![p] = Appended(pr, revNum)]
  /\ UNCHANGED <<fileExists, formatVersion, snapshots, callsStarted,
                 createsStarted, lastObserved, clock, storeVars, appVars>>

\* `await PromDelay.resolve(retryDelayMsec)` completes, and the next attempt
\* runs up to the await in `this.snapshot()`.
applyDelta_retry(p) ==
  LET pr == proc[p] IN
  /\ pr.pc = "sleep"
  /\ proc' = [proc EXCEPT ![p] =
       [pr EXCEPT !.retryTotalMsec = pr.retryTotalMsec + pr.retryDelayMsec,
                  !.retryDelayMsec = pr.retryDelayMsec * APPEND_RETRY_GROWTH_FACTOR,
                  !.attemptCount = pr.attemptCount + 1,
                  !.current = NoSnap, !.dNext = EMPTY,
                  !.i = 0, !.startInclusive = 0, !.endExclusive = 0,
                  !.composed = EMPTY, !.reads = <<>>,
                  !.pc = "revnums", !.phase = "current", !.revNum = NullRev]]
  /\ UNCHANGED <<fileVars, snapshots, callsStarted, createsStarted,
                 lastObserved, origin,
                 clock, storeVars, appVars>>

(***************************************************************************)
(* deltaAfter(baseRevNum)                                                  *)
(***************************************************************************)
\* Whether the document's revision is newer than the base, so that
\* deltaAfter() can form its result.
HasNewerOrSame(baseRevNum, docRevNum) == baseRevNum <= docRevNum
HasNewer(baseRevNum, docRevNum) == baseRevNum < docRevNum

\* The first revision of the composition deltaAfter() returns.
DeltaAfterStartAtBase(baseRevNum) == baseRevNum
DeltaAfterStart(baseRevNum) == baseRevNum + 1

\* new DeltaResult(docRevNum, delta), the result of deltaAfter().
DeltaResultNextRevNum(docRevNum, delta) ==
  [revNum |-> docRevNum + 1, delta |-> delta]
DeltaResult(docRevNum, delta) == [revNum |-> docRevNum, delta |-> delta]

\* The file revision deltaAfter() passes to whenChange(): the one that
\* _currentRevNums() read together with the document revision number
\* (`latest` is the file's revision when whenChange() is called).
WhenChangeAfterLatest(fileRevNumRead, latest) == latest
WhenChangeAfter(fileRevNumRead, latest) == fileRevNumRead

\* file.whenChange('never', afterFileRev, Paths.REVISION_NUMBER) is ready to
\* resolve: the path was written after file revision afterFileRev. (Every
\* writing transaction of DocControl writes the revision number path.)
WhenChangeReady(afterFileRev) == fileRevNum > afterFileRev

\* The call of deltaAfter(): runs up to `await this._currentRevNums()`.
deltaAfter(p, baseRevNum) ==
  /\ Terminal(proc[p])
  /\ callsStarted' = callsStarted + 1
  /\ proc' = [proc EXCEPT ![p] = [IdleProc EXCEPT !.kind = "deltaAfter",
                                                  !.pc = "after_revnums",
                                                  !.phase = "first",
                                                  !.baseRevNum = baseRevNum]]
  /\ UNCHANGED <<fileVars, snapshots, createsStarted, lastObserved, origin,
                 clock, storeVars, appVars>>

\* The transaction of _currentRevNums() runs in the file store: it reads the
\* document revision number and the file revision number together.
deltaAfter_revnums(p) ==
  LET pr == proc[p] IN
  /\ pr.pc = "after_revnums"
  /\ IF RevNumsError # "none"
       THEN proc' = [proc EXCEPT ![p] = Throw(pr, RevNumsError)]
       ELSE proc' = [proc EXCEPT ![p].revNum = revisionNumber,
                                 ![p].fileRevNum = fileRevNum,
                                 ![p].pc = "after_check"]
  /\ UNCHANGED <<fileVars, snapshots, callsStarted, createsStarted,
                 lastObserved, origin,
                 clock, storeVars, appVars>>

\* `await this._currentRevNums()` of deltaAfter() completes: the base is
\* checked against the document revision number read, and either the
\* composition is started or whenChange() is called.
deltaAfter_check(p) ==
  LET pr == proc[p]
      docRevNum == pr.revNum
  IN
  /\ pr.pc = "after_check"
  /\ IF ~MaxInc(pr.baseRevNum, docRevNum)
       THEN proc' = [proc EXCEPT ![p] = Throw(pr, "bad_value")]
     ELSE IF HasNewer(pr.baseRevNum, docRevNum)
       THEN proc' = [proc EXCEPT ![p] =
                      ComposeRevisions([pr EXCEPT !.pc = "after_compose"],
                                       EMPTY, DeltaAfterStart(pr.baseRevNum),
                                       docRevNum + 1)]
     ELSE proc' = [proc EXCEPT ![p].pc = "after_wait",
                               ![p].fileRevNum =
                                 WhenChangeAfter(pr.fileRevNum, fileRevNum)]
  /\ UNCHANGED <<fileVars, snapshots, callsStarted, createsStarted,
                 lastObserved, origin,
                 clock, storeVars, appVars>>

\* One `await this._readChangeRange(i, end)` of the _composeRevisions() loop
\* completes, for deltaAfter(); after the last one the result is returned.
deltaAfter_compose(p) ==
  LET pr == proc[p]
      end == BatchEnd(pr.i, pr.endExclusive)
  IN
  /\ pr.pc = "after_compose"
  /\ IF ReadFailure(pr.i, end) # "none"
       THEN proc' = [proc EXCEPT ![p] = Throw(pr, ReadFailure(pr.i, end))]
       ELSE LET delta == ComposeChanges(pr.composed, pr.i, end) IN
            IF end < pr.endExclusive
              THEN proc' = [proc EXCEPT ![p] = ComposeNext(pr, delta, end)]
              ELSE proc' = [proc EXCEPT ![p] =
                              Return(pr, DeltaResult(pr.revNum, delta))]
  /\ UNCHANGED <<fileVars, snapshots, callsStarted, createsStarted,
                 lastObserved, origin,
                 clock, storeVars, appVars>>

\* `await this._file.whenChange(...)` of deltaAfter() completes, and the loop
\* runs up to `await this._currentRevNums()` again.
deltaAfter_whenChange(p) ==
  LET pr == proc[p] IN
  /\ pr.pc = "after_wait"
  /\ WhenChangeReady(pr.fileRevNum)
  /\ proc' = [proc EXCEPT ![p].pc = "after_revnums", ![p].phase = "woken"]
  /\ UNCHANGED <<fileVars, snapshots, callsStarted, createsStarted,
                 lastObserved, origin,
                 clock, storeVars, appVars>>

\* file.whenChange('never', afterFileRev, Paths.REVISION_NUMBER) may resolve
\* because the storage layer reached its timeout: the path has not been
\* written since file revision afterFileRev.
WhenChangeElapsed(afterFileRev) == fileRevNum <= afterFileRev

\* `await this._file.whenChange(...)` of deltaAfter() completes because the
\* storage layer reached its timeout: the loop iterates, as after a change.
WhenChangeTimedOutThrown(pr) == Throw(pr, "timed_out")
WhenChangeTimedOut(pr) ==
  [pr EXCEPT !.pc = "after_revnums", !.phase = "timeout"]

deltaAfter_timeout(p) ==
  LET pr == proc[p] IN
  /\ pr.pc = "after_wait"
  /\ WhenChangeElapsed(pr.fileRevNum)
  /\ proc' = [proc EXCEPT ![p] = WhenChangeTimedOut(pr)]
  /\ UNCHANGED <<fileVars, snapshots, callsStarted, createsStarted,
                 lastObserved, origin, clock, storeVars, appVars>>

(***************************************************************************)
(* validationStatus()                                                      *)
(***************************************************************************)
STATUS_ERROR == "status_error"
STATUS_MIGRATE == "status_migrate"
STATUS_NOT_FOUND == "status_not_found"
STATUS_OK == "status_ok"

\* A stored revision number that TInt.min(revNum, 0) refuses.
BogusRevNum == -2

\* JavaScript's `!revNum` for the value read from the revision number path:
\* true of undefined (nothing stored) and of the number 0.
NotRevNumMissingOnly(revNum) == revNum = Absent
NotRevNum(revNum) == revNum = Absent \/ revNum = 0

\* `!formatVersion` for the value read from the format version path.
NotFormatVersion(version) == version = NoVersion

\* The last revision of the batch validationStatus() reads starting at i.
LastI(i, revNum) ==
  IF i + MAX_CHANGE_READS_PER_TRANSACTION - 1 < revNum
    THEN i + MAX_CHANGE_READS_PER_TRANSACTION - 1
    ELSE revNum

\* How many revisions past the stored revision number validationStatus()
\* looks at.
EXTRA_CHANGES == 10

\* Whether the read of the revisions past revNum brings back a change.
ExtraChangeDepthOne(revNum) == (revNum + 1) \in DOMAIN changes
ExtraChange(revNum) ==
  \E n \in (revNum + 1)..(revNum + EXTRA_CHANGES) : n \in DOMAIN changes

\* validationStatus() from the result of the metainfo transaction up to the
\* request of the first batch of changes.
AfterMetainfo(pr, version, revNum) ==
  IF NotFormatVersion(version) THEN ReturnStatus(pr, STATUS_ERROR)
  ELSE IF NotRevNum(revNum) THEN ReturnStatus(pr, STATUS_ERROR)
  ELSE IF version # FORMAT_VERSION THEN ReturnStatus(pr, STATUS_MIGRATE)
  ELSE IF ~(revNum >= 0) THEN ReturnStatus(pr, STATUS_ERROR)
  ELSE [pr EXCEPT !.pc = "validate_changes", !.revNum = revNum, !.i = 0,
                  !.startInclusive = 0, !.endExclusive = revNum + 1,
                  !.reads = IssueRead(<<>>, 0, LastI(0, revNum) + 1)]

\* The call of validationStatus(): runs up to `await this._file.exists()`.
validationStatus(p) ==
  /\ Terminal(proc[p])
  /\ callsStarted' = callsStarted + 1
  /\ proc' = [proc EXCEPT ![p] = [IdleProc EXCEPT !.kind = "validationStatus",
                                                  !.pc = "validate_exists"]]
  /\ UNCHANGED <<fileVars, snapshots, createsStarted, lastObserved, origin,
                 clock, storeVars, appVars>>

\* `await this._file.exists()` completes, and the metainfo transaction is
\* requested if the file exists.
validationStatus_exists(p) ==
  LET pr == proc[p] IN
  /\ pr.pc = "validate_exists"
  /\ proc' = [proc EXCEPT ![p] =
       IF ~fileExists THEN ReturnStatus(pr, STATUS_NOT_FOUND)
                      ELSE [pr EXCEPT !.pc = "validate_metainfo"]]
  /\ UNCHANGED <<fileVars, snapshots, callsStarted, createsStarted,
                 lastObserved, origin, clock, storeVars, appVars>>

\* The transaction reading the format version and the revision number
\* completes.
validationStatus_metainfo(p) ==
  LET pr == proc[p] IN
  /\ pr.pc = "validate_metainfo"
  /\ proc' = [proc EXCEPT ![p] = AfterMetainfo(pr, formatVersion, revisionNumber)]
  /\ UNCHANGED <<fileVars, snapshots, callsStarted, createsStarted,
                 lastObserved, origin, clock, storeVars, appVars>>

\* One `await this._readChangeRange(i, lastI + 1)` of the loop over the
\* changes completes; after the last one the read of the revisions past the
\* revision number is requested.
validationStatus_changes(p) ==
  LET pr == proc[p]
      lastI == LastI(pr.i, pr.revNum)
      i == pr.i + MAX_CHANGE_READS_PER_TRANSACTION
  IN
  /\ pr.pc = "validate_changes"
  /\ proc' = [proc EXCEPT ![p] =
       IF ReadFailure(pr.i, lastI + 1) # "none"
         THEN ReturnStatus(pr, STATUS_ERROR)
       ELSE IF i <= pr.revNum
         THEN [pr EXCEPT !.i = i,
                         !.reads = IssueRead(pr.reads, i,
                                             LastI(i, pr.revNum) + 1)]
       ELSE [pr EXCEPT !.pc = "validate_extra"]]
  /\ UNCHANGED <<fileVars, snapshots, callsStarted, createsStarted,
                 lastObserved, origin, clock, storeVars, appVars>>

\* The transaction reading the revisions past the revision number completes.
validationStatus_extra(p) ==
  LET pr == proc[p] IN
  /\ pr.pc = "validate_extra"
  /\ proc' = [proc EXCEPT ![p] =
       IF ExtraChange(pr.revNum) THEN ReturnStatus(pr, STATUS_ERROR)
                                 ELSE ReturnStatus(pr, STATUS_OK)]
  /\ UNCHANGED <<fileVars, snapshots, callsStarted, createsStarted,
                 lastObserved, origin, clock, storeVars, appVars>>

(***************************************************************************)
(* The file store: BaseFileStore.getFile() over LocalFileStore.            *)
(***************************************************************************)
\* The file IDs callers ask for, and those of them getFileInfo() reports as
\* valid.
FileIds == {"f1", "f2", "bad"}
ValidFileIds == {"f1", "f2"}

\* FileCache.resolveOrAdd(fileId, ...) finds the ID in the cache: as a file,
\* or as the pending result of a constructor call in flight.
CacheHolds(fileId) == fileId \in DOMAIN cache

\* What getFile() does for a checked ID: through the cache, it shares what
\* the cache holds and calls _impl_getFile() only for an ID the cache does
\* not hold.
GetFileUncached(fileId) == "construct"
GetFileLookup(fileId) == IF CacheHolds(fileId) THEN "share" ELSE "construct"

\* The call of getFile(): runs up to `await this.checkFileId(fileId)`.
getFile(p, fileId) ==
  /\ Terminal(proc[p])
  /\ callsStarted' = callsStarted + 1
  /\ proc' = [proc EXCEPT ![p] = [IdleProc EXCEPT !.kind = "getFile",
                                                  !.pc = "getfile_check",
                                                  !.fileId = fileId]]
  /\ UNCHANGED <<fileVars, snapshots, createsStarted, lastObserved, origin,
                 clock, storeVars, appVars>>

\* `await this.checkFileId(fileId)` completes; for a valid ID the cache is
\* asked, and _impl_getFile() runs up to its await unless the cache holds
\* the ID or LocalFileStore has the file already.
getFile_checked(p) ==
  LET pr == proc[p]
      fileId == pr.fileId
  IN
  /\ pr.pc = "getfile_check"
  /\ IF fileId \notin ValidFileIds
       THEN /\ proc' = [proc EXCEPT ![p] = Throw(pr, "bad_id")]
            /\ UNCHANGED cache
     ELSE IF GetFileLookup(fileId) = "share"
       THEN /\ proc' = [proc EXCEPT ![p].pc = "getfile_share"]
            /\ UNCHANGED cache
     ELSE IF fileId \in DOMAIN files
       THEN /\ proc' = [proc EXCEPT ![p].pc = "getfile_share"]
            /\ cache' = (fileId :> [pending |-> FALSE, file |-> files[fileId]])
                           @@ cache
     ELSE /\ proc' = [proc EXCEPT ![p].pc = "getfile_ensure"]
          /\ cache' = (fileId :> [pending |-> TRUE, file |-> 0]) @@ cache
  /\ UNCHANGED <<fileVars, snapshots, callsStarted, createsStarted,
                 lastObserved, origin, clock, files, constructed,
                 appVars>>

\* `await this._ensureFileStorageDirectory()` of _impl_getFile() completes:
\* the LocalFile is constructed and stored, and the cache has its result.
getFile_ensured(p) ==
  LET pr == proc[p]
      fileId == pr.fileId
      file == Len(constructed) + 1
  IN
  /\ pr.pc = "getfile_ensure"
  /\ constructed' = Append(constructed, fileId)
  /\ files' = (fileId :> file) @@ files
  /\ cache' = (fileId :> [pending |-> FALSE, file |-> file]) @@ cache
  /\ proc' = [proc EXCEPT ![p].pc = "getfile_share"]
  /\ UNCHANGED <<fileVars, snapshots, callsStarted, createsStarted,
                 lastObserved, origin, clock, appVars>>

\* The promise the cache gave getFile() resolves, and getFile() returns the
\* file.
getFile_resolved(p) ==
  LET pr == proc[p] IN
  /\ pr.pc = "getfile_share"
  /\ ~cache[pr.fileId].pending
  /\ proc' = [proc EXCEPT ![p] =
       [IdleProc EXCEPT !.kind = "getFile", !.pc = "done",
                        !.fileId = pr.fileId,
                        !.file = cache[pr.fileId].file]]
  /\ UNCHANGED <<fileVars, snapshots, callsStarted, createsStarted,
                 lastObserved, origin, clock, storeVars, appVars>>

(***************************************************************************)
(* The wall clock.                                                         *)
(***************************************************************************)
\* The highest time the clock reaches.
MaxClock == 3

\* Time passes.
tick ==
  /\ clock < MaxClock
  /\ clock' = clock + 1
  /\ UNCHANGED <<fileVars, snapshots, proc, callsStarted, createsStarted,
                 lastObserved, origin, storeVars, appVars>>

(***************************************************************************)
(* An observer of the current revision number.                             *)
(***************************************************************************)
\* _currentRevNums() on an initialized document, by an observer that
\* remembers the document revision number it got.
currentRevNums ==
  /\ RevNumsError = "none"
  /\ lastObserved # revisionNumber
  /\ lastObserved' = revisionNumber
  /\ UNCHANGED <<fileVars, snapshots, proc, callsStarted, createsStarted, origin,
                 clock, storeVars, appVars>>

(***************************************************************************)
(* Specification.                                                          *)
(***************************************************************************)
\* The deltas callers pass to applyDelta(): nothing; insert "x" at the start;
\* delete the first character; replace the first character by "y".
ClientDeltas == {EMPTY, <<"x">>, <<DELETE>>, <<"y", DELETE>>}

\* The contents callers pass to create(): null, or a one-character document.
CreateContents == {<<>>, <<(<<"x">>)>>}

\* The revision numbers callers pass: up to one beyond the current one.
RevNums == IF revisionNumber = Absent THEN {0} ELSE 0..(revisionNumber + 1)

Next ==
  \/ \E p \in Callers, contents \in CreateContents :
       callsStarted + createsStarted < MaxCalls /\ create(p, contents)
  \/ \E p \in Procs : create_file(p)
  \/ \E p \in Procs : create_transact(p)
  \/ \E p \in Callers, revNum \in RevNums \cup {NullRev} :
       callsStarted + createsStarted < MaxCalls /\ snapshot(p, revNum)
  \/ \E p \in Callers, baseRevNum \in RevNums, delta \in ClientDeltas :
       callsStarted + createsStarted < MaxCalls
         /\ applyDelta(p, baseRevNum, delta)
  \/ \E p \in Procs : snapshot_revnums(p)
  \/ \E p \in Procs : snapshot_compose(p)
  \/ \E p \in Procs : applyDeltaTo_compose(p)
  \/ \E p \in Procs : appendDelta(p)
  \/ \E p \in Procs : applyDelta_retry(p)
  \/ \E p \in Callers, baseRevNum \in RevNums :
       callsStarted + createsStarted < MaxCalls /\ deltaAfter(p, baseRevNum)
  \/ \E p \in Procs : deltaAfter_revnums(p)
  \/ \E p \in Procs : deltaAfter_check(p)
  \/ \E p \in Procs : deltaAfter_compose(p)
  \/ \E p \in Procs : deltaAfter_whenChange(p)
  \/ currentRevNums

Spec == Init /\ [][Next]_vars


(***************************************************************************)
(* Specification of the retry loop: callers that each insert "x" on top of *)
(* the revision that is current when they call, often enough for one call *)
(* to lose every append race of its retry budget. The continuation of an   *)
(* async call is always run eventually (the storage answers, the timer     *)
(* fires), so each call's steps are weakly fair.                           *)
(***************************************************************************)
\* Number of attempts applyDelta() makes when every one loses its race,
\* starting with `total` msec slept and a next delay of `delay` msec.
RECURSIVE AttemptsFrom(_, _)
AttemptsFrom(total, delay) ==
  IF total >= MAX_APPEND_TIME_MSEC THEN 1
  ELSE 1 + AttemptsFrom(total + delay, delay * APPEND_RETRY_GROWTH_FACTOR)

MaxAttempts == AttemptsFrom(0, INITIAL_APPEND_RETRY_MSEC)

\* Number of applyDelta calls started in a behaviour of SpecRetry: what it
\* takes for one call to lose the races of all its MaxAttempts attempts
\* against as many commits of other calls.
RetryCalls == 7

\* The steps of caller p's calls, once started.
CallStep(p) ==
  \/ create_file(p)
  \/ create_transact(p)
  \/ snapshot_revnums(p)
  \/ snapshot_compose(p)
  \/ applyDeltaTo_compose(p)
  \/ appendDelta(p)
  \/ applyDelta_retry(p)
  \/ deltaAfter_revnums(p)
  \/ deltaAfter_check(p)
  \/ deltaAfter_compose(p)
  \/ deltaAfter_whenChange(p)

NextRetry ==
  \/ \E p \in Callers : createsStarted = 0 /\ create(p, <<>>)
  \/ \E p \in Callers :
       /\ callsStarted < RetryCalls
       /\ revisionNumber # Absent
       /\ applyDelta(p, revisionNumber, <<"x">>)
  \/ \E p \in Procs : create_file(p)
  \/ \E p \in Procs : create_transact(p)
  \/ \E p \in Procs : snapshot_revnums(p)
  \/ \E p \in Procs : snapshot_compose(p)
  \/ \E p \in Procs : applyDeltaTo_compose(p)
  \/ \E p \in Procs : appendDelta(p)
  \/ \E p \in Procs : applyDelta_retry(p)

SpecRetry ==
  Init /\ [][NextRetry]_vars /\ \A p \in Procs : WF_vars(CallStep(p))

(***************************************************************************)
(* Specification of waiting: on a created document the callers call        *)
(* deltaAfter() while the writer appends on top of the current revision.   *)
(***************************************************************************)
\* Number of deltaAfter / applyDelta calls started in a behaviour of SpecWait.
WaitCalls == 3

NextWait ==
  \/ createsStarted = 0 /\ create(Writer, <<>>)
  \/ \E p \in Callers, baseRevNum \in RevNums :
       /\ callsStarted < WaitCalls
       /\ revisionNumber # Absent
       /\ deltaAfter(p, baseRevNum)
  \/ /\ callsStarted < WaitCalls
     /\ revisionNumber # Absent
     /\ applyDelta(Writer, revisionNumber, <<"x">>)
  \/ \E p \in Procs : create_file(p)
  \/ \E p \in Procs : create_transact(p)
  \/ \E p \in Procs : snapshot_revnums(p)
  \/ \E p \in Procs : snapshot_compose(p)
  \/ \E p \in Procs : appendDelta(p)
  \/ \E p \in Procs : deltaAfter_revnums(p)
  \/ \E p \in Procs : deltaAfter_check(p)
  \/ \E p \in Procs : deltaAfter_compose(p)
  \/ \E p \in Procs : deltaAfter_whenChange(p)

SpecWait ==
  Init /\ [][NextWait]_vars /\ \A p \in Procs : WF_vars(CallStep(p))

(***************************************************************************)
(* Specification with storage failures: as Spec, and the transaction of    *)
(* an append may fail in the storage layer, without having written.        *)
(***************************************************************************)
\* The kinds of storage error other than path_not_empty.
StorageErrors == {"timed_out"}

\* `await this._file.transact(spec)` of _appendDelta() fails with `e`.
appendDelta_error(p, e) ==
  LET pr == proc[p] IN
  /\ pr.pc = "append"
  /\ ~isEmpty(pr.dNext)
  /\ proc' = [proc EXCEPT ![p] = AppendFailed(pr, e)]
  /\ UNCHANGED <<fileVars, snapshots, callsStarted, createsStarted,
                 lastObserved, origin,
                 clock, storeVars, appVars>>

NextStorage ==
  \/ Next
  \/ \E p \in Procs, e \in StorageErrors : appendDelta_error(p, e)

SpecStorage == Init /\ [][NextStorage]_vars

(***************************************************************************)
(* Specification of opening: the file is absent, or was created by an      *)
(* instance constructed with an earlier format version; callers create,    *)
(* validate and edit the document.                                         *)
(***************************************************************************)
\* The format version of an earlier release.
OLD_FORMAT_VERSION == "v0"

\* The instance's own state after construction, no call having been made.
InitControl ==
  /\ snapshots = <<>>
  /\ proc = [p \in Procs |-> IdleProc]
  /\ callsStarted = 0
  /\ createsStarted = 0
  /\ lastObserved = Absent
  /\ origin = <<>>
  /\ clock = 0
  /\ cache = <<>>
  /\ files = <<>>
  /\ constructed = <<>>
  /\ InitApp

InitOpen ==
  \/ Init
  \/ \E contents \in CreateContents :
       /\ fileExists = TRUE
       /\ formatVersion = OLD_FORMAT_VERSION
       /\ revisionNumber = CreateRevNum(contents)
       /\ changes = CreateChanges(contents, 0)
       /\ fileRevNum = 1
       /\ InitControl

NextOpen ==
  \/ \E p \in Callers, contents \in CreateContents :
       callsStarted + createsStarted < MaxCalls /\ create(p, contents)
  \/ \E p \in Callers, baseRevNum \in RevNums :
       callsStarted + createsStarted < MaxCalls
         /\ applyDelta(p, baseRevNum, <<"x">>)
  \/ \E p \in Callers :
       callsStarted + createsStarted < MaxCalls /\ validationStatus(p)
  \/ \E p \in Procs : create_file(p)
  \/ \E p \in Procs : create_transact(p)
  \/ \E p \in Procs : snapshot_revnums(p)
  \/ \E p \in Procs : snapshot_compose(p)
  \/ \E p \in Procs : applyDeltaTo_compose(p)
  \/ \E p \in Procs : appendDelta(p)
  \/ \E p \in Procs : applyDelta_retry(p)
  \/ \E p \in Procs : validationStatus_exists(p)
  \/ \E p \in Procs : validationStatus_metainfo(p)
  \/ \E p \in Procs : validationStatus_changes(p)
  \/ \E p \in Procs : validationStatus_extra(p)

SpecOpen == InitOpen /\ [][NextOpen]_vars

(***************************************************************************)
(* Specification of validation: validationStatus() on a file in any        *)
(* condition the storage may hand back, sound or damaged.                  *)
(***************************************************************************)
\* The highest revision number stored in the files validated.
MaxStoredRev == 2

\* What a file may hold at change/n: nothing, the change of revision n
\* (change 0 empty, the others inserting "x"), a change that carries the
\* revision number n + 1, a change 0 that is not empty, or bytes that do not
\* decode.
Conditions == {"absent", "sound", "mislabelled", "nonempty", "undecodable"}

StoredChange(n, condition) ==
  CASE condition = "mislabelled" ->
         DocumentChange(n + 1, 0, IF n = 0 THEN EMPTY ELSE <<"x">>, NoAuthor)
    [] condition = "nonempty" -> DocumentChange(n, 0, <<"x">>, NoAuthor)
    [] condition = "undecodable" -> Undecodable
    [] OTHER ->
         DocumentChange(n, 0, IF n = 0 THEN EMPTY ELSE <<"x">>, NoAuthor)

\* The change paths a file may hold a value at: those up to one past the
\* highest revision number, and one of two far ones, the nearer of which is
\* among the revisions validationStatus() looks at past revision
\* MaxStoredRev.
NearPaths == 0..(MaxStoredRev + 1)
FarPaths == {MaxStoredRev + EXTRA_CHANGES, MaxStoredRev + EXTRA_CHANGES + 1}

\* The stored changes of a file whose near paths are in the given
\* conditions and that holds a change at the far paths in `far`.
StoredFile(conditions, far) ==
  [n \in {k \in NearPaths : conditions[k] # "absent"} \cup far |->
     IF n \in far THEN StoredChange(n, "sound")
                  ELSE StoredChange(n, conditions[n])]

InitValidate ==
  /\ InitControl
  /\ \/ /\ fileExists = FALSE
        /\ formatVersion = NoVersion
        /\ revisionNumber = Absent
        /\ changes = <<>>
        /\ fileRevNum = 0
     \/ /\ fileExists = TRUE
        /\ formatVersion \in {NoVersion, OLD_FORMAT_VERSION, FORMAT_VERSION}
        /\ revisionNumber \in {Absent, BogusRevNum} \cup (0..MaxStoredRev)
        /\ \E conditions \in [NearPaths -> Conditions],
              far \in {{}} \cup {{n} : n \in FarPaths} :
             changes = StoredFile(conditions, far)
        /\ fileRevNum = 1

NextValidate ==
  \/ callsStarted = 0 /\ validationStatus("p1")
  \/ \E p \in Procs : validationStatus_exists(p)
  \/ \E p \in Procs : validationStatus_metainfo(p)
  \/ \E p \in Procs : validationStatus_changes(p)
  \/ \E p \in Procs : validationStatus_extra(p)

SpecValidate == InitValidate /\ [][NextValidate]_vars

(***************************************************************************)
(* Specification of reading a damaged log: on a document whose file has    *)
(* lost changes, or holds values that do not decode, the callers take      *)
(* turns at reading and editing, one call at a time.                       *)
(***************************************************************************)
\* The values a damaged file may hold at change/n: the change of revision n
\* (change 0 empty, the others inserting "x"), or bytes that do not decode.
DamagedChanges(n) ==
  { DocumentChange(n, 0, IF n = 0 THEN EMPTY ELSE <<"x">>, NoAuthor),
    Undecodable }

InitCorrupt ==
  /\ InitControl
  /\ fileExists = TRUE
  /\ formatVersion = FORMAT_VERSION
  /\ revisionNumber \in 1..MaxStoredRev
  /\ \E S \in SUBSET (0..revisionNumber) :
       changes \in {f \in [S -> UNION {DamagedChanges(n) : n \in S}] :
                      \A n \in S : f[n] \in DamagedChanges(n)}
  /\ fileRevNum = revisionNumber + 1

\* No call is in progress.
AllTerminal == \A q \in Procs : Terminal(proc[q])

NextCorrupt ==
  \/ \E p \in Callers, revNum \in (0..revisionNumber) \cup {NullRev} :
       callsStarted < MaxCalls /\ AllTerminal /\ snapshot(p, revNum)
  \/ \E p \in Callers, baseRevNum \in 0..revisionNumber :
       callsStarted < MaxCalls /\ AllTerminal
         /\ applyDelta(p, baseRevNum, <<"x">>)
  \/ \E p \in Callers, baseRevNum \in 0..(revisionNumber - 1) :
       callsStarted < MaxCalls /\ AllTerminal /\ deltaAfter(p, baseRevNum)
  \/ \E p \in Procs : snapshot_revnums(p)
  \/ \E p \in Procs : snapshot_compose(p)
  \/ \E p \in Procs : applyDeltaTo_compose(p)
  \/ \E p \in Procs : appendDelta(p)
  \/ \E p \in Procs : deltaAfter_revnums(p)
  \/ \E p \in Procs : deltaAfter_check(p)
  \/ \E p \in Procs : deltaAfter_compose(p)

SpecCorrupt == InitCorrupt /\ [][NextCorrupt]_vars

(***************************************************************************)
(* Specification of the file store: callers ask for files by ID.           *)
(***************************************************************************)
NextFiles ==
  \/ \E p \in Procs, fileId \in FileIds :
       callsStarted < MaxCalls /\ getFile(p, fileId)
  \/ \E p \in Procs : getFile_checked(p)
  \/ \E p \in Procs : getFile_ensured(p)
  \/ \E p \in Procs : getFile_resolved(p)

SpecFiles == Init /\ [][NextFiles]_vars

(***************************************************************************)
(* Specification of batched reads: on a document with a long log a caller  *)
(* takes snapshots, asks for the delta after a revision and validates.     *)
(***************************************************************************)
\* The highest revision number of the documents read.
MaxLog == 41

\* The log of a document that was created empty and edited by alternately
\* inserting and deleting a character, up to revision n.
LongLog(n) ==
  [k \in 0..n |->
     IF k = 0 THEN firstChange
     ELSE DocumentChange(k, 0, IF k % 2 = 1 THEN <<"x">> ELSE <<DELETE>>,
                         NoAuthor)]

InitBatch ==
  /\ InitControl
  /\ fileExists = TRUE
  /\ formatVersion = FORMAT_VERSION
  /\ revisionNumber \in 0..MaxLog
  /\ changes = LongLog(revisionNumber)
  /\ fileRevNum = revisionNumber + 1

\* The revision numbers the caller passes: those next to a multiple of the
\* batch size.
BatchRevNums ==
  {n \in 0..revisionNumber :
     n % MAX_CHANGE_READS_PER_TRANSACTION
       \in {0, 1, MAX_CHANGE_READS_PER_TRANSACTION - 1}}

NextBatch ==
  \/ \E revNum \in BatchRevNums \cup {NullRev} :
       callsStarted < MaxCalls /\ snapshot("p1", revNum)
  \/ \E baseRevNum \in BatchRevNums \ {revisionNumber} :
       callsStarted < MaxCalls /\ deltaAfter("p1", baseRevNum)
  \/ callsStarted < MaxCalls /\ validationStatus("p1")
  \/ \E p \in Procs : snapshot_revnums(p)
  \/ \E p \in Procs : snapshot_compose(p)
  \/ \E p \in Procs : deltaAfter_revnums(p)
  \/ \E p \in Procs : deltaAfter_check(p)
  \/ \E p \in Procs : deltaAfter_compose(p)
  \/ \E p \in Procs : validationStatus_exists(p)
  \/ \E p \in Procs : validationStatus_metainfo(p)
  \/ \E p \in Procs : validationStatus_changes(p)
  \/ \E p \in Procs : validationStatus_extra(p)

SpecBatch == InitBatch /\ [][NextBatch]_vars

(***************************************************************************)
(* Specification of waiting with timeouts: as SpecWait without fairness,   *)
(* and the storage layer may end a wait for a change that has not come.    *)
(***************************************************************************)
NextTimeout ==
  \/ NextWait
  \/ \E p \in Procs : deltaAfter_timeout(p)

SpecTimeout == Init /\ [][NextTimeout]_vars

(***************************************************************************)
(* Specification with a clock: callers create and edit the document while  *)
(* time passes.                                                            *)
(***************************************************************************)
NextClock ==
  \/ \E p \in Callers, contents \in CreateContents :
       callsStarted + createsStarted < MaxCalls /\ create(p, contents)
  \/ \E p \in Callers, baseRevNum \in RevNums :
       callsStarted + createsStarted < MaxCalls
         /\ applyDelta(p, baseRevNum, <<"x">>)
  \/ \E p \in Procs : create_file(p)
  \/ \E p \in Procs : create_transact(p)
  \/ \E p \in Procs : snapshot_revnums(p)
  \/ \E p \in Procs : snapshot_compose(p)
  \/ \E p \in Procs : applyDeltaTo_compose(p)
  \/ \E p \in Procs : appendDelta(p)
  \/ \E p \in Procs : applyDelta_retry(p)
  \/ tick

SpecClock == Init /\ [][NextClock]_vars

(***************************************************************************)
(* TransactionSpec: the constructor and its restrictions on combinations   *)
(* of file operations.                                                     *)
(***************************************************************************)
\* Largest number of operations given to the TransactionSpec constructor.
MaxOps == 3

\* FileOp's categories, in the order sortByCategory() puts operations in.
CAT_ENVIRONMENT == "environment"
CAT_REVISION == "revision"
CAT_PREREQUISITE == "prerequisite"
CAT_LIST == "list"
CAT_READ == "read"
CAT_DELETE == "delete"
CAT_WRITE == "write"
CAT_WAIT == "wait"
Categories == <<CAT_ENVIRONMENT, CAT_REVISION, CAT_PREREQUISITE, CAT_LIST,
                CAT_READ, CAT_DELETE, CAT_WRITE, CAT_WAIT>>

\* The file operations, by name (an operation's arguments play no part in
\* the constructor's checks), and the category of each.
OpNames == {"timeout", "revNum", "checkPathExists", "listPath", "readPath",
            "deletePath", "writePath", "whenPathNot"}
OpCategory(name) ==
  CASE name = "timeout" -> CAT_ENVIRONMENT
    [] name = "revNum" -> CAT_REVISION
    [] name = "checkPathExists" -> CAT_PREREQUISITE
    [] name = "listPath" -> CAT_LIST
    [] name = "readPath" -> CAT_READ
    [] name = "deletePath" -> CAT_DELETE
    [] name = "writePath" -> CAT_WRITE
    [] name = "whenPathNot" -> CAT_WAIT

\* The operation lists the constructor is called with.
OpLists == UNION {[1..n -> OpNames] : n \in 0..MaxOps}

\* opsWithCategory(category) and opsWithName(name): arrays, filtered from
\* _ops.
OpsWithCategory(ops, category) ==
  SelectSeq(ops, LAMBDA op : OpCategory(op) = category)
OpsWithName(ops, name) == SelectSeq(ops, LAMBDA op : op = name)

\* FileOp.sortByCategory(ops): the operations in category order, and in the
\* given order within a category.
RECURSIVE SortFrom(_, _)
SortFrom(ops, i) ==
  IF i > Len(Categories) THEN <<>>
  ELSE OpsWithCategory(ops, Categories[i]) \o SortFrom(ops, i + 1)
SortByCategory(ops) == SortFrom(ops, 1)

HasModificationOps(ops) ==
  \/ Len(OpsWithCategory(ops, CAT_DELETE)) # 0
  \/ Len(OpsWithCategory(ops, CAT_WRITE)) # 0
HasReadOps(ops) == Len(OpsWithCategory(ops, CAT_READ)) # 0

\* JavaScript's comparisons of an array of operations with a number.
\* `array === n` is false: an object is never strictly equal to a number.
\* `array > n` compares the number that the array's string form reads as:
\* 0 for the empty array (its string form is empty), and not a number for
\* an array of operation objects, which no comparison holds of.
ArrayToNumber(array) ==
  IF array = <<>> THEN [nan |-> FALSE, value |-> 0]
  ELSE [nan |-> TRUE, value |-> 0]
ArrayStrictEquals(array, n) == FALSE
ArrayGreaterThan(array, n) ==
  LET v == ArrayToNumber(array) IN ~v.nan /\ v.value > n

\* The constructor's validation of the sorted operations: the error it
\* throws, or "none".
ConstructorError(ops) ==
  LET waitCount == OpsWithCategory(ops, CAT_WAIT) IN
  IF Len(OpsWithName(ops, "timeout")) > 1 THEN "too_many_timeout"
  ELSE IF Len(OpsWithName(ops, "revNum")) > 1 THEN "too_many_revNum"
  ELSE IF ArrayStrictEquals(waitCount, 1)
    THEN IF HasReadOps(ops) \/ HasModificationOps(ops)
           THEN "mixed_wait" ELSE "none"
  ELSE IF ArrayGreaterThan(waitCount, 1) THEN "too_many_wait"
  ELSE "none"

\* new TransactionSpec(...args).
NewTransactionSpec(args) ==
  LET ops == SortByCategory(args) IN
  /\ transactionSpec' = [constructed |-> TRUE, args |-> args, ops |-> ops,
                         error |-> ConstructorError(ops)]
  /\ UNCHANGED <<docVars, carets, trafficVars, apiVars, sessionVars,
                 versionCheck>>

NextTransaction == \E args \in OpLists : NewTransactionSpec(args)

SpecTransaction == Init /\ [][NextTransaction]_vars

(***************************************************************************)
(* CaretControl: caret sessions and the idle reaper.                       *)
(***************************************************************************)
\* The caret IDs a document can allocate.
CaretIds == {"c1", "c2", "c3"}

\* The idle threshold, in ticks of the clock.
IDLE_THRESHOLD == 1

\* The caret snapshot: the carets of the sessions that are live.
CaretSnapshot == {c \in DOMAIN carets : carets[c].state = "live"}

\* The caret's last update is older than the idle threshold.
IsIdleAtThreshold(c) == clock - carets[c].lastUpdate >= IDLE_THRESHOLD
IsIdle(c) == clock - carets[c].lastUpdate > IDLE_THRESHOLD

\* makeNewSession(): allocates a fresh caret ID and begins its session.
makeNewSession(c) ==
  /\ c \notin DOMAIN carets
  /\ carets' = (c :> [state |-> "live", lastUpdate |-> clock]) @@ carets
  /\ UNCHANGED <<docVars, transactionSpec, trafficVars, apiVars, sessionVars,
                 versionCheck>>

\* updateCaret(caretId, ...) on a live session.
updateCaret(c) ==
  /\ c \in CaretSnapshot
  /\ carets[c].lastUpdate # clock
  /\ carets' = [carets EXCEPT ![c].lastUpdate = clock]
  /\ UNCHANGED <<docVars, transactionSpec, trafficVars, apiVars, sessionVars,
                 versionCheck>>

\* endSession(caretId) by the session's client.
endSession(c) ==
  /\ c \in CaretSnapshot
  /\ carets' = [carets EXCEPT ![c].state = "ended"]
  /\ UNCHANGED <<docVars, transactionSpec, trafficVars, apiVars, sessionVars,
                 versionCheck>>

\* A step of the idle reaper: it ends an idle caret's session.
reapIdle(c) ==
  /\ c \in CaretSnapshot
  /\ IsIdle(c)
  /\ carets' = [carets EXCEPT ![c].state = "reaped"]
  /\ UNCHANGED <<docVars, transactionSpec, trafficVars, apiVars, sessionVars,
                 versionCheck>>

NextReaper ==
  \/ \E c \in CaretIds : makeNewSession(c)
  \/ \E c \in CaretIds : updateCaret(c)
  \/ \E c \in CaretIds : endSession(c)
  \/ \E c \in CaretIds : reapIdle(c)
  \/ tick

\* The reaper is a task of its own that keeps running.
SpecReaper ==
  Init /\ [][NextReaper]_vars /\ \A c \in CaretIds : WF_vars(reapIdle(c))

(***************************************************************************)
(* Specification with storage failures in reads too: as SpecStorage, and   *)
(* the transaction of a read may fail in the storage layer.                *)
(***************************************************************************)
\* `await this._file.transact(spec)` of _currentRevNums() or of
\* _readChangeRange() fails with `e`, within snapshot() or
\* _composeRevisions(): the error is thrown through to the caller.
snapshot_error(p, e) ==
  LET pr == proc[p] IN
  /\ pr.pc \in {"revnums", "compose", "server_compose"}
  /\ proc' = [proc EXCEPT ![p] = Throw(pr, e)]
  /\ UNCHANGED <<fileVars, snapshots, callsStarted, createsStarted,
                 lastObserved, origin, clock, storeVars, appVars>>

NextReadFailure ==
  \/ NextStorage
  \/ \E p \in Procs, e \in StorageErrors : snapshot_error(p, e)

SpecReadFailure == Init /\ [][NextReadFailure]_vars

(***************************************************************************)
(* TrafficSignal: the go / stop signal for reverse proxies.                *)
(***************************************************************************)
MINIMUM_TRAFFIC_ALLOW_TIME_MSEC == 60000

\* Number.MAX_SAFE_INTEGER, "never": the largest time value. The model's
\* integers are narrower than JavaScript's, so it is the largest time of the
\* model, to which MINIMUM_TRAFFIC_ALLOW_TIME_MSEC can still be added.
MAX_SAFE_INTEGER == 2000000000

\* Largest number of time steps the clock passed to allowTrafficAt() takes.
MaxTimeSteps == 3
\* A time step: half of the minimum allow time.
TIME_STEP_MSEC == 30000

\* The arguments callers pass to allowTrafficAt(): times, the largest one
\* included, and a negative number.
TimeArgs ==
  {k * TIME_STEP_MSEC : k \in 0..MaxTimeSteps} \cup {MAX_SAFE_INTEGER, -1}

\* The arguments callers pass to loadFactor(): none, heavy, twice heavy.
LoadFactors == {0, 100, 200}

\* _recalc(): the stop conditions.
MustStopIfUnhealthy(ts) == ~ts.healthy
MustStop(ts) == ts.shuttingDown \/ ~ts.healthy

\* _recalc(): what is left after the checks of the minimum allow time. The
\* load factor is not looked at: traffic is allowed.
AfterChecksLoadStop(ts) ==
  IF ts.loadFactor >= 100
    THEN [ts EXCEPT !.allowTraffic = FALSE,
                    !.allowTrafficAtMsec = ts.currentTimeMsec + TIME_STEP_MSEC]
    ELSE [ts EXCEPT !.allowTraffic = TRUE]
AfterChecks(ts) == [ts EXCEPT !.allowTraffic = TRUE]

\* _recalc().
Recalc(ts) ==
  IF MustStop(ts)
    THEN [ts EXCEPT !.allowTraffic = FALSE,
                    !.allowTrafficAtMsec = MAX_SAFE_INTEGER]
  ELSE IF ts.allowTraffic /\ ts.currentTimeMsec < ts.forceTrafficUntilMsec
    THEN ts
  ELSE IF ~ts.allowTraffic /\ ts.currentTimeMsec >= ts.allowTrafficAtMsec
    THEN [ts EXCEPT !.allowTraffic = TRUE,
                    !.forceTrafficUntilMsec =
                       ts.currentTimeMsec + MINIMUM_TRAFFIC_ALLOW_TIME_MSEC]
  ELSE AfterChecks(ts)

\* What signalCalls holds after a call with the given argument and outcome.
CallRecorded(timeMsec, outcome) ==
  [timeMsec |-> timeMsec,
   outcome |-> outcome,
   returned |-> IF outcome \in {"true", "false"} THEN outcome
                ELSE signalCalls.returned,
   goAtMsec |-> IF outcome = "true" /\ signalCalls.returned = "false"
                  THEN timeMsec
                ELSE IF outcome = "false" THEN NoTime
                ELSE signalCalls.goAtMsec]

\* allowTrafficAt(timeMsec).
allowTrafficAt(timeMsec) ==
  /\ IF timeMsec < 0
       THEN /\ signalCalls' = CallRecorded(timeMsec, "bad_value")
            /\ UNCHANGED trafficSignal
     ELSE IF timeMsec < trafficSignal.currentTimeMsec
       THEN /\ signalCalls' = CallRecorded(timeMsec, "bad_use")
            /\ UNCHANGED trafficSignal
     ELSE LET ts == Recalc([trafficSignal EXCEPT !.currentTimeMsec = timeMsec])
          IN  /\ trafficSignal' = ts
              /\ signalCalls' =
                   CallRecorded(timeMsec,
                                IF ts.allowTraffic THEN "true" ELSE "false")
  /\ UNCHANGED <<docVars, transactionSpec, carets, apiVars, sessionVars,
                 versionCheck>>

\* health(healthy).
health(healthy) ==
  /\ trafficSignal' = [trafficSignal EXCEPT !.healthy = healthy]
  /\ UNCHANGED <<docVars, transactionSpec, carets, signalCalls, apiVars,
                 sessionVars, versionCheck>>

\* shuttingDown().
shuttingDown ==
  /\ trafficSignal' = [trafficSignal EXCEPT !.shuttingDown = TRUE]
  /\ UNCHANGED <<docVars, transactionSpec, carets, signalCalls, apiVars,
                 sessionVars, versionCheck>>

\* loadFactor(loadFactor).
loadFactor(value) ==
  /\ trafficSignal' = [trafficSignal EXCEPT !.loadFactor = value]
  /\ UNCHANGED <<docVars, transactionSpec, carets, signalCalls, apiVars,
                 sessionVars, versionCheck>>

NextTraffic ==
  \/ \E timeMsec \in TimeArgs : allowTrafficAt(timeMsec)
  \/ \E healthy \in BOOLEAN : health(healthy)
  \/ shuttingDown
  \/ \E value \in LoadFactors : loadFactor(value)

SpecTraffic == Init /\ [][NextTraffic]_vars

(***************************************************************************)
(* VersionNumber.check().                                                  *)
(***************************************************************************)
\* Largest version number passed to check(), as value or as max.
MaxVersion == 8

\* The values passed as `value`: integers, one negative, and a value that
\* is not a number.
CheckValues ==
  [type : {"number"}, n : -1..MaxVersion] \cup {[type |-> "string", n |-> 0]}
\* The values passed as `max`: left out, or an integer.
CheckMaxes == {Undefined} \cup (-1..MaxVersion)

\* TInt.check(max) for an integer: as every check(), it returns its value.
TIntCheck(max) == max

\* JavaScript's truth of a number: every number but 0 (and NaN).
Truthy(n) == n # 0

\* The second test of check(): `(max !== undefined) && TInt.check(max) &&
\* (value > max)`.
AboveMax(value, max) ==
  max # Undefined /\ Truthy(TIntCheck(max)) /\ value.n > max

\* VersionNumber.check(value, max): "value" when it returns value, or the
\* error it fails with.
Check(value, max) ==
  IF value.type # "number" \/ value.n < 0 THEN "bad_value"
  ELSE IF AboveMax(value, max) THEN "bad_value"
  ELSE "value"

check(value, max) ==
  /\ versionCheck' = [called |-> TRUE, value |-> value, max |-> max,
                      outcome |-> Check(value, max)]
  /\ UNCHANGED <<docVars, transactionSpec, carets, trafficVars, apiVars,
                 sessionVars>>

NextVersion == \E value \in CheckValues, max \in CheckMaxes : check(value, max)

SpecVersion == Init /\ [][NextVersion]_vars

(***************************************************************************)
(* DocSession: getSessionProxy() and the API client it goes through.       *)
(***************************************************************************)
\* Total number of getSessionProxy() calls started in a behaviour.
MaxSessionCalls == 3

\* ApiClient.isOpen() of the client at position c of clients: open() is
\* called on a client as it is constructed, and the client is open, or
\* opening, until its connection closes.
IsOpen(ds, c) == ds.clients[c].open

\* api.handles(proxy): the proxy of promise k was made by client api.
Handles(ds, api, k) == ds.promises[k].client = api

\* _getApiClient(): the DocSession after the call, in which this._apiClient
\* is what the call returns. A client that is missing or not open is
\* replaced by a new one, on which open() is called.
GetApiClient(ds) ==
  IF ds.apiClient = 0 \/ ~IsOpen(ds, ds.apiClient)
    THEN [ds EXCEPT !.clients = Append(ds.clients, [open |-> TRUE]),
                    !.apiClient = Len(ds.clients) + 1]
    ELSE ds

\* The session set-up of getSessionProxy(): the request is made through
\* api, for a new session when the SessionInfo has no caret ID and for the
\* existing one otherwise, and its promise becomes _sessionProxyPromise. A
\* request through a client whose connection has closed is rejected.
SetUp(ds, api) ==
  LET promise ==
        [client |-> api,
         kind |-> IF ds.caretId = 0 THEN "makeNewSession"
                  ELSE "findExistingSession",
         state |-> IF IsOpen(ds, api) THEN "pending" ELSE "rejected",
         caret |-> ds.caretId]
  IN  [ds EXCEPT !.promises = Append(ds.promises, promise),
                 !.sessionProxyPromise = Len(ds.promises) + 1]

\* What getSessionProxy() does once it has the client: the first time it
\* sets the session up, later it waits for the promise it has.
AskedAgain(ds, api) ==
  IF ds.sessionProxyPromise = 0 THEN SetUp(ds, api) ELSE ds

\* The call of getSessionProxy(): runs up to its first await.
getSessionProxy(p) ==
  LET ds == GetApiClient(docSession)
      api == ds.apiClient
      first == ds.sessionProxyPromise = 0
      after == AskedAgain(ds, api)
  IN
  /\ sessionCalls[p].pc \in {"idle", "done", "error"}
  /\ docSession' = after
  /\ sessionCalls' = [sessionCalls EXCEPT ![p] =
       [pc |-> IF first THEN "await_new" ELSE "await_old",
        api |-> api, promise |-> after.sessionProxyPromise, proxy |-> 0]]
  /\ UNCHANGED <<docVars, transactionSpec, carets, trafficVars, apiVars,
                 serverSessions, versionCheck>>

\* `await this._sessionProxyPromise` completes: the proxy is returned when
\* the client still handles it, and the session is set up again otherwise.
getSessionProxy_had(p) ==
  LET call == sessionCalls[p]
      promise == docSession.promises[call.promise]
      again == SetUp(docSession, call.api)
  IN
  /\ call.pc = "await_old"
  /\ promise.state # "pending"
  /\ IF promise.state = "rejected"
       THEN /\ sessionCalls' = [sessionCalls EXCEPT ![p].pc = "error"]
            /\ UNCHANGED docSession
     ELSE IF Handles(docSession, call.api, call.promise)
       THEN /\ sessionCalls' = [sessionCalls EXCEPT ![p].pc = "done",
                                                    ![p].proxy = call.promise]
            /\ UNCHANGED docSession
     ELSE /\ docSession' = again
          /\ sessionCalls' = [sessionCalls EXCEPT
               ![p].pc = "await_new",
               ![p].promise = again.sessionProxyPromise]
  /\ UNCHANGED <<docVars, transactionSpec, carets, trafficVars, apiVars,
                 serverSessions, versionCheck>>

\* `await proxyPromise` completes: for a session that was started without a
\* caret ID the caret ID is asked for, through the proxy.
getSessionProxy_got(p) ==
  LET call == sessionCalls[p]
      promise == docSession.promises[call.promise]
  IN
  /\ call.pc = "await_new"
  /\ promise.state # "pending"
  /\ sessionCalls' = [sessionCalls EXCEPT
       ![p].pc = IF promise.state = "rejected" THEN "error"
                 ELSE IF promise.kind = "makeNewSession" THEN "await_caret"
                 ELSE "done",
       ![p].proxy = IF promise.state = "rejected" THEN 0 ELSE call.promise]
  /\ UNCHANGED <<docVars, transactionSpec, carets, trafficVars, apiVars,
                 docSession, serverSessions, versionCheck>>

\* `await proxy.getCaretId()` completes: with the caret ID, which goes into
\* _sessionInfo, or with an error when the proxy's connection has closed.
getSessionProxy_caret(p) ==
  LET call == sessionCalls[p]
      promise == docSession.promises[call.proxy]
  IN
  /\ call.pc = "await_caret"
  /\ IF IsOpen(docSession, promise.client)
       THEN /\ docSession' = [docSession EXCEPT !.caretId = promise.caret]
            /\ sessionCalls' = [sessionCalls EXCEPT ![p].pc = "done"]
       ELSE /\ sessionCalls' = [sessionCalls EXCEPT ![p].pc = "error"]
            /\ UNCHANGED docSession
  /\ UNCHANGED <<docVars, transactionSpec, carets, trafficVars, apiVars,
                 serverSessions, versionCheck>>

\* The server answers the set-up request of promise k: makeNewSession
\* makes a session with a new caret, findExistingSession finds the session
\* of the caret asked for.
serverSetUp(k) ==
  LET promise == docSession.promises[k]
      caret == IF promise.kind = "makeNewSession"
                 THEN Len(SelectSeq(serverSessions,
                                    LAMBDA s : s.kind = "makeNewSession")) + 1
                 ELSE promise.caret
  IN
  /\ promise.state = "pending"
  /\ serverSessions' = Append(serverSessions,
                              [kind |-> promise.kind, caret |-> caret])
  /\ docSession' = [docSession EXCEPT !.promises[k].state = "resolved",
                                      !.promises[k].caret = caret]
  /\ UNCHANGED <<docVars, transactionSpec, carets, trafficVars, apiVars,
                 sessionCalls, versionCheck>>

\* The connection of client c closes: the client is no longer open, and
\* the promises of its pending requests are rejected.
connectionClosed(c) ==
  /\ IsOpen(docSession, c)
  /\ docSession' = [docSession EXCEPT
       !.clients[c].open = FALSE,
       !.promises = [k \in DOMAIN docSession.promises |->
                       IF /\ docSession.promises[k].client = c
                          /\ docSession.promises[k].state = "pending"
                         THEN [docSession.promises[k] EXCEPT
                                 !.state = "rejected"]
                         ELSE docSession.promises[k]]]
  /\ UNCHANGED <<docVars, transactionSpec, carets, trafficVars, apiVars,
                 sessionCalls, serverSessions, versionCheck>>

NextSession ==
  \/ \E p \in SessionCallers :
       /\ Len(docSession.clients) < MaxSessionCalls
       /\ Len(docSession.promises) < MaxSessionCalls
       /\ getSessionProxy(p)
  \/ \E p \in SessionCallers : getSessionProxy_had(p)
  \/ \E p \in SessionCallers : getSessionProxy_got(p)
  \/ \E p \in SessionCallers : getSessionProxy_caret(p)
  \/ \E k \in DOMAIN docSession.promises : serverSetUp(k)
  \/ \E c \in DOMAIN docSession.clients : connectionClosed(c)

SpecSession == Init /\ [][NextSession]_vars

\* ---------------------------------------------------------------------
\* ApiClient (api-client/ApiClient.js): the connection with the server
\* over a websocket. apiClient holds the fields of the instance that
\* _resetConnection() sets: ws is the socket's position in sockets (0 for
\* null), callbacks and pendingPayloads hold payloads. A payload is given by
\* the message ID it carries and by the call of _send() that made it (the
\* call is not part of the message: it tells the calls with equal IDs
\* apart). Every handler is bound to the instance, not to the socket it is
\* set on, so the events of every socket the instance has made reach it.

MaxSockets == 4
MaxApiCalls == 4

\* new WebSocket(url): connecting, nothing sent, no event fired yet.
NewSocket ==
  [readyState |-> "CONNECTING", sent |-> <<>>, answered |-> {},
   errorFired |-> FALSE, closeFired |-> FALSE]

\* _resetConnection().
ResetConnection(ac) ==
  [ac EXCEPT !.ws = 0, !.nextId = 0, !.callbacks = <<>>,
             !.pendingPayloads = <<>>]

\* The callbacks without the one of the given message ID (delete
\* this._callbacks[id]).
RECURSIVE DeleteCallback(_, _)
DeleteCallback(callbacks, id) ==
  IF callbacks = <<>> THEN <<>>
  ELSE IF Head(callbacks).id = id THEN DeleteCallback(Tail(callbacks), id)
  ELSE <<Head(callbacks)>> \o DeleteCallback(Tail(callbacks), id)

\* The calls of the callbacks registered under a message ID.
CallbackCalls(callbacks, id) ==
  {callbacks[i].call : i \in {j \in DOMAIN callbacks : callbacks[j].id = id}}

\* _send(): the client, the sockets and the calls after one call of _send()
\* on client ac. The read of this._ws.readyState throws a TypeError when
\* this._ws is null; a closing or closed socket gives a rejected promise;
\* otherwise the call takes the next ID, its payload is queued (connecting)
\* or sent (open), and its callback is registered.
Send(ac, socks, calls) ==
  LET callNum == Len(calls) + 1
      wsState == IF ac.ws = 0 THEN "null" ELSE socks[ac.ws].readyState
      payload == [id |-> ac.nextId, call |-> callNum]
      NewCall(state) ==
        [conn |-> ac.ws, id |-> ac.nextId, wsState |-> wsState,
         state |-> state, settledBy |-> 0, settled |-> 0]
      registered ==
        [ac EXCEPT !.nextId = @ + 1, !.callbacks = Append(@, payload)]
  IN  CASE wsState = "null" ->
             [client |-> ac, sockets |-> socks,
              calls |-> Append(calls, NewCall("threw"))]
        [] wsState \in {"CLOSED", "CLOSING"} ->
             [client |-> ac, sockets |-> socks,
              calls |-> Append(calls, [NewCall("rejected")
                                         EXCEPT !.settled = 1])]
        [] wsState = "CONNECTING" ->
             [client |-> [registered EXCEPT
                            !.pendingPayloads = Append(@, payload)],
              sockets |-> socks,
              calls |-> Append(calls, NewCall("pending"))]
        [] wsState = "OPEN" ->
             [client |-> registered,
              sockets |-> [socks EXCEPT ![ac.ws].sent = Append(@, payload)],
              calls |-> Append(calls, NewCall("pending"))]

\* The calls after every callback of the client has been called with
\* reject(error), by the event of socket s.
RejectAll(ac, calls, s) ==
  [i \in DOMAIN calls |->
     IF \E j \in DOMAIN ac.callbacks : ac.callbacks[j].call = i
     THEN [calls[i] EXCEPT !.state = "rejected", !.settledBy = s,
                           !.settled = @ + 1]
     ELSE calls[i]]

\* The browser fires a failed socket's error event and then its close event
\* in one task: between the two only the application's own reactions run
\* (open() and calls), no event of any socket.
CloseEventDue(s) == sockets[s].errorFired /\ ~sockets[s].closeFired

NoCloseEventDue == \A s \in DOMAIN sockets : ~CloseEventDue(s)

\* open(): with a socket already there the call is a ping; otherwise a new
\* socket is made, the handlers are set on it, and the connection ID is
\* asked for.
open ==
  /\ Len(apiCalls) < MaxApiCalls
  /\ apiClient.ws = 0 => Len(sockets) < MaxSockets
  /\ LET socks == IF apiClient.ws # 0 THEN sockets
                  ELSE Append(sockets, NewSocket)
         ac == IF apiClient.ws # 0 THEN apiClient
               ELSE [apiClient EXCEPT !.ws = Len(socks)]
         r == Send(ac, socks, apiCalls)
     IN  /\ apiClient' = r.client
         /\ sockets' = r.sockets
         /\ apiCalls' = r.calls
  /\ UNCHANGED <<docVars, transactionSpec, carets, trafficVars, sessionVars,
                 versionCheck>>

\* A call of an API method on one of the instance's targets: the target's
\* proxy passes it to _send().
call ==
  /\ Len(apiCalls) < MaxApiCalls
  /\ LET r == Send(apiClient, sockets, apiCalls)
     IN  /\ apiClient' = r.client
         /\ sockets' = r.sockets
         /\ apiCalls' = r.calls
  /\ UNCHANGED <<docVars, transactionSpec, carets, trafficVars, sessionVars,
                 versionCheck>>

\* The open event of socket s, and _handleOpen(): each pending payload is
\* sent with this._ws.send(), and the queue is emptied. this._ws is the
\* socket the instance holds now: with null, or with a socket that is still
\* connecting, the first send() throws and the queue stays as it is; a
\* closing or closed socket drops what it is given.
handleOpen(s) ==
  /\ s \in DOMAIN sockets
  /\ sockets[s].readyState = "CONNECTING"
  /\ NoCloseEventDue
  /\ LET opened == [sockets EXCEPT ![s].readyState = "OPEN"]
         ws == apiClient.ws
         pending == apiClient.pendingPayloads
     IN  IF pending = <<>>
         THEN /\ sockets' = opened
              /\ UNCHANGED apiClient
         ELSE IF ws = 0 \/ opened[ws].readyState = "CONNECTING"
         THEN /\ sockets' = opened
              /\ UNCHANGED apiClient
         ELSE /\ sockets' =
                   IF opened[ws].readyState = "OPEN"
                   THEN [opened EXCEPT ![ws].sent = @ \o pending]
                   ELSE opened
              /\ apiClient' = [apiClient EXCEPT !.pendingPayloads = <<>>]
  /\ UNCHANGED <<apiCalls, docVars, transactionSpec, carets, trafficVars,
                 sessionVars, versionCheck>>

\* The server's response to the k-th message sent on socket s arrives, and
\* _handleMessage(): the callback registered under the response's ID is
\* deleted and called; with no such callback the handler throws.
handleMessage(s, k) ==
  /\ s \in DOMAIN sockets
  /\ sockets[s].readyState = "OPEN"
  /\ NoCloseEventDue
  /\ k \in DOMAIN sockets[s].sent
  /\ k \notin sockets[s].answered
  /\ LET id == sockets[s].sent[k].id
         found == CallbackCalls(apiClient.callbacks, id)
     IN  /\ sockets' = [sockets EXCEPT ![s].answered = @ \cup {k}]
         /\ apiClient' = [apiClient EXCEPT
                            !.callbacks = DeleteCallback(@, id)]
         /\ apiCalls' =
              [i \in DOMAIN apiCalls |->
                 IF i \in found
                 THEN [apiCalls[i] EXCEPT !.state = "resolved",
                                          !.settledBy = s,
                                          !.settled = @ + 1]
                 ELSE apiCalls[i]]
  /\ UNCHANGED <<docVars, transactionSpec, carets, trafficVars, sessionVars,
                 versionCheck>>

\* The closing handshake of socket s starts: no event, the socket's
\* readyState is CLOSING.
closing(s) ==
  /\ s \in DOMAIN sockets
  /\ sockets[s].readyState = "OPEN"
  /\ NoCloseEventDue
  /\ sockets' = [sockets EXCEPT ![s].readyState = "CLOSING"]
  /\ UNCHANGED <<apiClient, apiCalls, docVars, transactionSpec, carets,
                 trafficVars, sessionVars, versionCheck>>

\* _handleTermination(): every callback is rejected, the connection state
\* is reset.
HandleTermination(s) ==
  /\ apiCalls' = RejectAll(apiClient, apiCalls, s)
  /\ apiClient' = ResetConnection(apiClient)

\* The error event of socket s (the connection has failed), and
\* _handleError().
handleError(s) ==
  /\ s \in DOMAIN sockets
  /\ sockets[s].readyState # "CLOSED"
  /\ NoCloseEventDue
  /\ sockets' = [sockets EXCEPT ![s].readyState = "CLOSED",
                                ![s].errorFired = TRUE]
  /\ HandleTermination(s)
  /\ UNCHANGED <<docVars, transactionSpec, carets, trafficVars, sessionVars,
                 versionCheck>>

\* The close event of socket s, after its error event or at the end of a
\* closing handshake, and _handleClose().
handleClose(s) ==
  /\ s \in DOMAIN sockets
  /\ \/ CloseEventDue(s)
     \/ sockets[s].readyState # "CLOSED" /\ NoCloseEventDue
  /\ sockets' = [sockets EXCEPT ![s].readyState = "CLOSED",
                                ![s].closeFired = TRUE]
  /\ HandleTermination(s)
  /\ UNCHANGED <<docVars, transactionSpec, carets, trafficVars, sessionVars,
                 versionCheck>>

NextApi ==
  \/ open
  \/ call
  \/ \E s \in 1..MaxSockets : handleOpen(s)
  \/ \E s \in 1..MaxSockets : \E k \in 1..MaxApiCalls : handleMessage(s, k)
  \/ \E s \in 1..MaxSockets : closing(s)
  \/ \E s \in 1..MaxSockets : handleError(s)
  \/ \E s \in 1..MaxSockets : handleClose(s)

SpecApi == Init /\ [][NextApi]_vars

(***************************************************************************)
(* Definitions the properties are stated with.                             *)
(***************************************************************************)
\* The composition, in order, of the deltas of change/0 .. change/n.
DocAt(n) == ComposeChanges(EMPTY, 0, n + 1)

\* The step is one of caller p's call, not the start of a new call.
StepOf(p) == ~Terminal(proc[p]) /\ proc'[p] # proc[p]

\* Caller p is in the file transaction of _appendDelta(), for revision n.
Appending(p, n) == proc[p].pc = "append" /\ proc[p].current.revNum + 1 = n

\* C1: at most one change is ever committed at change/N and it is never
\* overwritten: a stored change stays as it is in every step, and an append
\* transaction that finds change/N non-empty writes nothing and ends in the
\* lost-race handling (a retry delay or too_many_retries).
AtMostOnceCommit ==
  [][ /\ \A n \in DOMAIN changes :
           n \in DOMAIN changes' /\ changes'[n] = changes[n]
      /\ \A p \in Procs, n \in DOMAIN changes :
           (Appending(p, n) /\ StepOf(p)) =>
             /\ UNCHANGED fileVars
             /\ \/ proc'[p].pc = "sleep"
                \/ proc'[p].pc = "error" /\ proc'[p].error = "too_many_retries"
    ]_vars

\* A caller has just lost the race for a revision that another caller
\* committed.
LostRaceReached ==
  \E p \in Procs :
    /\ proc[p].pc = "sleep"
    /\ proc[p].current.revNum + 1 \in DOMAIN origin
    /\ origin[proc[p].current.revNum + 1].proc # p

\* The highest revision number with a stored change or stored as the head.
MaxStored ==
  LET all == DOMAIN changes \cup {revisionNumber, 0}
  IN  CHOOSE m \in all : \A k \in all : k <= m

\* C2: in an initialized document the stored revision_number is N exactly
\* when change/0..N all exist and change/N+1 does not.
LogHeadInvariant ==
  revisionNumber # Absent =>
    \A n \in 0..(MaxStored + 1) :
      (revisionNumber = n) <=>
        /\ \A i \in 0..n : i \in DOMAIN changes
        /\ (n + 1) \notin DOMAIN changes

\* The log has grown by appends of both callers.
LogGrownByBoth ==
  /\ revisionNumber >= 2
  /\ \E m, n \in DOMAIN origin : origin[m].proc # origin[n].proc

\* C3: the correction law: when applyDelta(base, d, a) has returned
\* (newRev, corr), the contents of revision base composed with d and then
\* with corr are the contents of revision newRev.
CorrectionLaw ==
  \A p \in Procs :
    (proc[p].kind = "applyDelta" /\ proc[p].pc = "done") =>
      Compose(Compose(DocAt(proc[p].baseRevNum), proc[p].delta),
              proc[p].result.delta)
        = DocAt(proc[p].result.revNum)

\* C4: compose consistency: every snapshot that snapshot() has cached or
\* returned for revision N - to a caller or to applyDelta() - has as its
\* contents the composition of change/0..N, and a snapshot call that asked
\* for revision N got revision N.
ComposeConsistency ==
  /\ \A n \in DOMAIN snapshots : snapshots[n] = DocAt(n)
  /\ \A p \in Procs :
       /\ proc[p].base # NoSnap =>
            proc[p].base.contents = DocAt(proc[p].base.revNum)
       /\ proc[p].current # NoSnap =>
            proc[p].current.contents = DocAt(proc[p].current.revNum)
       /\ (proc[p].kind = "snapshot" /\ proc[p].pc = "done") =>
            /\ proc[p].result.delta = DocAt(proc[p].result.revNum)
            /\ proc[p].baseRevNum # NullRev =>
                 proc[p].result.revNum = proc[p].baseRevNum

\* A snapshot call has returned a non-empty revision 2 while revision 1 is
\* cached.
SnapshotComposedForward ==
  \E p \in Procs :
    /\ proc[p].kind = "snapshot" /\ proc[p].pc = "done"
    /\ proc[p].result.revNum = 2
    /\ proc[p].result.delta # EMPTY
    /\ 1 \in DOMAIN snapshots

\* C5: head monotonicity: an observation of the current revision number is
\* never less than the observation before it.
HeadMonotonic == [][lastObserved' >= lastObserved]_vars

\* The head has advanced since an observation of an initialized document.
HeadAdvancedSinceObserved ==
  lastObserved >= 1 /\ revisionNumber > lastObserved

\* C6: a lost append race is not surfaced: an applyDelta call never ends
\* with path_not_empty; a lost race leads to the retry delay or, the budget
\* used up, to too_many_retries; and after the delay the call starts a fresh
\* attempt by reading the head again.
LostRaceNotSurfaced ==
  [][ \A p \in Procs :
        /\ (proc'[p].kind = "applyDelta" /\ proc'[p].pc = "error") =>
             proc'[p].error # "path_not_empty"
        /\ (\E n \in DOMAIN changes : Appending(p, n) /\ StepOf(p)) =>
             \/ proc'[p].pc = "sleep"
             \/ proc'[p].pc = "error" /\ proc'[p].error = "too_many_retries"
        /\ (proc[p].pc = "sleep" /\ StepOf(p)) =>
             /\ proc'[p].pc = "revnums"
             /\ proc'[p].phase = "current"
             /\ proc'[p].revNum = NullRev
             /\ proc'[p].attemptCount = proc[p].attemptCount + 1
    ]_vars

\* A call is in its second attempt, reading the head again.
SecondAttemptReached ==
  \E p \in Procs :
    /\ proc[p].pc = "revnums" /\ proc[p].phase = "current"
    /\ proc[p].attemptCount = 2

FastPath ==
  [][ \A p \in Procs :
        LET pr == proc[p]
            revNum == pr.baseRevNum + 1
        IN  ( /\ pr.pc = "append" /\ StepOf(p)
              /\ pr.base.revNum = pr.current.revNum
              /\ revNum \notin DOMAIN changes
              /\ fileExists ) =>
              /\ pr.base.revNum = pr.baseRevNum
              /\ proc'[p].pc = "done"
              /\ proc'[p].result = [revNum |-> revNum, delta |-> EMPTY]
              /\ DOMAIN changes' = DOMAIN changes \cup {revNum}
              /\ \A n \in DOMAIN changes : changes'[n] = changes[n]
              /\ changes'[revNum] = [revNum |-> revNum,
                                     timestamp |-> pr.timestamp,
                                     delta |-> pr.delta,
                                     authorId |-> AuthorOf(p)]
              /\ revisionNumber' = revNum
              /\ UNCHANGED <<fileExists, formatVersion>>
    ]_vars

\* A call has returned from the fast path.
FastPathReturned ==
  \E p \in Procs :
    /\ proc[p].kind = "applyDelta" /\ proc[p].pc = "done"
    /\ ~isEmpty(proc[p].delta)
    /\ proc[p].result.revNum = proc[p].baseRevNum + 1
    /\ proc[p].result.revNum \in DOMAIN origin
    /\ origin[proc[p].result.revNum].proc = p

\* C10: rebase path: a change that an applyDelta(baseRevNum, d, a) call
\* committed at a revision R > baseRevNum + 1 holds d transformed, server
\* first, against the composition of change/baseRevNum+1 .. change/R-1.
RebasePath ==
  \A R \in DOMAIN origin :
    R > origin[R].baseRevNum + 1 =>
      changes[R].delta =
        Transform(ComposeChanges(EMPTY, origin[R].baseRevNum + 1, R),
                  origin[R].delta, TRUE)

\* A call has committed a rebased change in a later attempt, after the head
\* moved under its first one.
RebasedCommitted ==
  \E p \in Procs :
    /\ proc[p].phase = "next" /\ proc[p].attemptCount >= 2
    /\ proc[p].revNum \in DOMAIN origin
    /\ origin[proc[p].revNum].proc = p
    /\ proc[p].revNum > proc[p].baseRevNum + 1


\* How far a call is from its end, counted in steps: the attempts the retry
\* budget still allows, then the awaits left in the current attempt, then
\* the batches left in the current _composeRevisions() loop.
StageRank(pr) ==
  CASE pr.pc = "create_file" -> 2
    [] pr.pc = "create_transact" -> 1
    [] pr.pc = "revnums" /\ pr.phase \in {"base", "snapshot"} -> 9
    [] pr.pc = "compose" /\ pr.phase \in {"base", "snapshot"} -> 8
    [] pr.pc = "revnums" /\ pr.phase = "current" -> 7
    [] pr.pc = "compose" /\ pr.phase = "current" -> 6
    [] pr.pc = "server_compose" -> 5
    [] pr.pc = "append" -> 4
    [] pr.pc = "revnums" /\ pr.phase = "next" -> 3
    [] pr.pc = "compose" /\ pr.phase = "next" -> 2
    [] pr.pc = "sleep" -> 1
    [] OTHER -> 0

Rank(pr) ==
  IF Terminal(pr) THEN 0
  ELSE ((MaxAttempts - pr.attemptCount) * 10 + StageRank(pr))
         * (MAX_CHANGE_READS_PER_TRANSACTION + 1)
       + (pr.endExclusive - pr.i)

\* C7: every applyDelta call ends and never retries forever: each step of a
\* call brings it strictly nearer to its end, which is at most MaxAttempts
\* attempts away: a call never makes more attempts than that, and it throws
\* too_many_retries exactly out of a lost race of attempt number MaxAttempts.
RetryTerminates ==
  [][ \A p \in Procs :
        StepOf(p) =>
          /\ 0 <= Rank(proc'[p])
          /\ Rank(proc'[p]) < Rank(proc[p])
          /\ proc'[p].attemptCount <= MaxAttempts
          /\ (proc'[p].pc = "error" /\ proc'[p].error = "too_many_retries") =>
               /\ proc[p].pc = "append"
               /\ proc[p].attemptCount = MaxAttempts
          /\ (proc[p].pc = "append" /\ proc[p].attemptCount = MaxAttempts
                /\ proc[p].current.revNum + 1 \in DOMAIN changes) =>
               proc'[p].pc = "error" /\ proc'[p].error = "too_many_retries"
    ]_vars

\* A call has thrown too_many_retries.
TooManyRetriesReached ==
  \E p \in Procs : proc[p].pc = "error" /\ proc[p].error = "too_many_retries"


(***************************************************************************)
(* deltaAfter(): C11 - C15.                                                *)
(***************************************************************************)
\* Caller p's deltaAfter call returns in this step.
Resolves(p) ==
  proc[p].kind = "deltaAfter" /\ proc[p].pc # "done" /\ proc'[p].pc = "done"

\* C11: getChangeAfter minimality: when deltaAfter(baseRevNum) returns, the
\* revision number of its result is greater than baseRevNum and is the
\* document revision number the call read last (after its wait, if it
\* waited), which the head has not gone below; the head is not baseRevNum
\* when the call returns.
ChangeAfterMinimality ==
  [][ \A p \in Procs :
        /\ (proc[p].pc = "after_revnums" /\ proc'[p].pc = "after_check") =>
             proc'[p].revNum = revisionNumber
        /\ Resolves(p) =>
             /\ proc'[p].result.revNum > proc[p].baseRevNum
             /\ proc'[p].result.revNum = proc[p].revNum
             /\ proc'[p].result.revNum <= revisionNumber
             /\ revisionNumber # proc[p].baseRevNum
    ]_vars

\* A deltaAfter call that had to wait has returned.
WaiterResolved ==
  \E p \in Procs :
    /\ proc[p].kind = "deltaAfter" /\ proc[p].pc = "done"
    /\ proc[p].phase = "woken"

\* C12: the delta deltaAfter(baseRevNum) returns with revision number revNum
\* is the composition, in order, of change/baseRevNum+1 .. change/revNum,
\* and the contents of revision baseRevNum composed with it are the contents
\* of revision revNum.
ChangeAfterDelta ==
  \A p \in Procs :
    (proc[p].kind = "deltaAfter" /\ proc[p].pc = "done") =>
      /\ proc[p].result.delta =
           ComposeChanges(EMPTY, proc[p].baseRevNum + 1,
                          proc[p].result.revNum + 1)
      /\ Compose(DocAt(proc[p].baseRevNum), proc[p].result.delta)
           = DocAt(proc[p].result.revNum)

\* A deltaAfter call on a non-empty revision has returned a non-empty delta
\* that takes it to another non-empty revision.
ChangeAfterComposed ==
  \E p \in Procs :
    /\ proc[p].kind = "deltaAfter" /\ proc[p].pc = "done"
    /\ proc[p].baseRevNum >= 1
    /\ DocAt(proc[p].baseRevNum) # EMPTY
    /\ proc[p].result.delta # EMPTY
    /\ DocAt(proc[p].result.revNum) # EMPTY

\* A deltaAfter call that waits while the head is beyond its baseRevNum - a
\* commit has landed since the head was read, before or after whenChange()
\* was called - has its whenChange() ready to resolve; once woken it finds
\* the head beyond baseRevNum and never waits again.
WakeupReady ==
  \A p \in Procs :
    /\ (proc[p].pc = "after_wait" /\ revisionNumber > proc[p].baseRevNum) =>
         fileRevNum > proc[p].fileRevNum
    /\ proc[p].pc = "after_wait" => proc[p].phase = "first"
    /\ (proc[p].kind = "deltaAfter" /\ proc[p].phase = "woken") =>
         /\ revisionNumber > proc[p].baseRevNum
         /\ proc[p].pc \in {"after_revnums", "after_check", "after_compose",
                            "done"}
         /\ proc[p].pc \in {"after_check", "after_compose"} =>
              proc[p].revNum > proc[p].baseRevNum

\* Both callers waited on the same revision at the same time and have
\* returned after the writer's commit.
TwoWaitersResolved ==
  \A p \in Callers :
    /\ proc[p].kind = "deltaAfter" /\ proc[p].pc = "done"
    /\ proc[p].phase = "woken"
    /\ proc[p].baseRevNum = 0

\* C13: no lost wakeup: every deltaAfter call that waits while the head is
\* beyond its baseRevNum eventually returns, whenever the commit landed and
\* however many callers wait; its wakeup is ready from the commit on.
NoLostWakeup ==
  /\ []WakeupReady
  /\ \A p \in Procs :
       (proc[p].pc = "after_wait" /\ revisionNumber > proc[p].baseRevNum)
         ~> (proc[p].pc = "done")

\* C14: ordering: when a deltaAfter call returns revision number R, the
\* changes 1 .. R were all stored before that step and the head was at least
\* R; and a revision number that applyDelta has returned is one whose change
\* is stored.
ChangeAfterOrdering ==
  [][ \A p \in Procs :
        /\ Resolves(p) =>
             /\ \A n \in 1..proc'[p].result.revNum : n \in DOMAIN changes
             /\ proc'[p].result.revNum <= revisionNumber
        /\ (proc'[p].kind = "applyDelta" /\ proc'[p].pc = "done") =>
             /\ proc'[p].result.revNum \in DOMAIN changes'
             /\ proc'[p].result.revNum <= revisionNumber'
    ]_vars

\* A deltaAfter call on an older revision has returned the revision that an
\* applyDelta call of the other caller has returned.
ChangeAfterSawApplied ==
  \E p, q \in Procs :
    /\ proc[p].kind = "deltaAfter" /\ proc[p].pc = "done"
    /\ proc[q].kind = "applyDelta" /\ proc[q].pc = "done"
    /\ ~isEmpty(proc[q].delta)
    /\ proc[p].baseRevNum < proc[q].result.revNum
    /\ proc[p].result.revNum >= proc[q].result.revNum

\* C15: a revision number beyond the head is rejected: when the first read
\* of the head in a snapshot, applyDelta or deltaAfter call finds the head
\* below the revision number passed, the call fails right there, nothing is
\* written, and a deltaAfter call only ever waits on a revision number that
\* is not beyond the head it read.
BeyondHeadRejected ==
  [][ \A p \in Procs :
        /\ ( /\ StepOf(p)
             /\ proc[p].pc = "revnums" /\ proc[p].phase \in {"snapshot", "base"}
             /\ revisionNumber # Absent
             /\ proc[p].revNum > revisionNumber ) =>
             /\ proc'[p].pc = "error" /\ proc'[p].error = "bad_value"
             /\ UNCHANGED <<fileVars, snapshots>>
        /\ ( /\ StepOf(p)
             /\ proc[p].pc = "after_check"
             /\ proc[p].baseRevNum > proc[p].revNum ) =>
             /\ proc[p].phase = "first"
             /\ proc'[p].pc = "error" /\ proc'[p].error = "bad_value"
             /\ UNCHANGED <<fileVars, snapshots>>
        /\ proc'[p].pc = "after_wait" =>
             proc'[p].baseRevNum <= proc'[p].revNum
    ]_vars

\* A snapshot call and a deltaAfter call have both been rejected for their
\* revision number.
BeyondHeadReached ==
  \E p, q \in Procs :
    /\ proc[p].kind = "snapshot" /\ proc[p].error = "bad_value"
    /\ proc[q].kind = "deltaAfter" /\ proc[q].error = "bad_value"


(***************************************************************************)
(* Failures, retries and create(): C16 - C20.                              *)
(***************************************************************************)
\* C16: a storage failure other than path_not_empty in an append attempt
\* ends the applyDelta call with that error: an append transaction that
\* neither wrote nor found its path taken threw a storage error, the call
\* ends with that very error, and an ended call makes no further attempt.
StorageFailureSurfaced ==
  [][ \A p \in Procs :
        /\ ( /\ StepOf(p)
             /\ proc[p].pc = "append"
             /\ ~isEmpty(proc[p].dNext)
             /\ fileExists
             /\ proc[p].current.revNum + 1 \notin DOMAIN changes
             /\ UNCHANGED fileVars ) =>
             /\ proc'[p].pc = "error"
             /\ proc'[p].error \in StorageErrors
        /\ (proc[p].pc = "error" /\ proc'[p] # proc[p]) =>
             proc'[p].attemptCount = 0
        /\ (proc'[p].pc = "error" /\ proc'[p].error \in StorageErrors
              /\ proc'[p] # proc[p]) =>
             proc[p].pc = "append" /\ UNCHANGED fileVars
    ]_vars

\* An applyDelta call has ended with the storage's timeout.
StorageFailureReached ==
  \E p \in Procs :
    /\ proc[p].kind = "applyDelta" /\ proc[p].pc = "error"
    /\ proc[p].error = "timed_out"

\* C17: the time an applyDelta call has slept between its attempts never
\* exceeds MAX_APPEND_TIME_MSEC.
SleepWithinBudget ==
  \A p \in Procs : proc[p].retryTotalMsec <= MAX_APPEND_TIME_MSEC

\* Caller p is in an attempt of applyDelta(): between the read of the head
\* and the end of the append (and of the read of the new snapshot).
InAttempt(p) ==
  /\ proc[p].kind = "applyDelta"
  /\ proc[p].phase \in {"current", "next"}
  /\ proc[p].pc \in {"revnums", "compose", "server_compose", "append"}

\* C18 as stated: at most one applyDelta attempt is in flight at any moment.
SingleWriter ==
  \A p, q \in Procs : (InAttempt(p) /\ InAttempt(q)) => p = q

\* C18 as amended: attempts overlap, commits do not: an append commits only
\* on the head its attempt read - no other commit has landed since - and
\* moves the head by one, and no other call moves in that step.
CommitsSerialized ==
  [][ \A p \in Procs :
        (StepOf(p) /\ proc[p].pc = "append" /\ changes' # changes) =>
          /\ proc[p].current.revNum = revisionNumber
          /\ revisionNumber' = revisionNumber + 1
          /\ DOMAIN changes' = DOMAIN changes \cup {revisionNumber + 1}
          /\ \A q \in Procs \ {p} : proc'[q] = proc[q]
    ]_vars

\* An attempt has committed while an attempt of another call, which read
\* the same head, is still in flight.
OverlappedAttemptCommitted ==
  \E p, q \in Procs :
    /\ p # q
    /\ InAttempt(q) /\ proc[q].pc = "append"
    /\ proc[q].current.revNum + 1 \in DOMAIN origin
    /\ origin[proc[q].current.revNum + 1].proc = p

\* C19: a successful create(contents) leaves the configured format version,
\* the empty change 0 and, for null contents, revision number 0 and no other
\* change, else revision number 1 and change 1 with the contents and no
\* author; the current revision's contents are then empty or the contents
\* passed, and no snapshot is cached.
CreateResult ==
  [][ \A p \in Procs :
        (proc[p].pc = "create_transact" /\ proc'[p].pc = "done") =>
          /\ formatVersion' = FORMAT_VERSION
          /\ changes'[0] = [revNum |-> 0, timestamp |-> 0, delta |-> EMPTY,
                            authorId |-> NoAuthor]
          /\ proc[p].contents = <<>> =>
               /\ revisionNumber' = 0
               /\ DOMAIN changes' = {0}
               /\ DocAt(0)' = EMPTY
          /\ proc[p].contents # <<>> =>
               /\ revisionNumber' = 1
               /\ DOMAIN changes' = {0, 1}
               /\ changes'[1] = [revNum |-> 1, timestamp |-> proc[p].timestamp,
                                 delta |-> proc[p].contents[1],
                                 authorId |-> NoAuthor]
               /\ DocAt(1)' = proc[p].contents[1]
          /\ snapshots' = <<>>
    ]_vars

\* After a create with contents, a snapshot call has
\* returned revision 1 with the contents.
CreatedThenSnapshot ==
  \E p, q \in Procs :
    /\ proc[p].kind = "create" /\ proc[p].pc = "done"
    /\ proc[p].contents # <<>>
    /\ proc[q].kind = "snapshot" /\ proc[q].pc = "done"
    /\ proc[q].result = [revNum |-> 1, delta |-> proc[p].contents[1]]

LayoutValid ==
  /\ fileExists
  /\ formatVersion = FORMAT_VERSION
  /\ revisionNumber >= 0
  /\ DOMAIN changes = 0..revisionNumber
  /\ \A n \in DOMAIN changes :
       changes[n] # Undecodable /\ changes[n].revNum = n
  /\ isEmpty(changes[0].delta)

\* Caller p's validationStatus() call returns in this step.
Validated(p) ==
  /\ proc[p].kind = "validationStatus"
  /\ ~Terminal(proc[p])
  /\ proc'[p].pc = "done"

\* C21: a validationStatus() call that returns on a document satisfying the
\* persisted layout with the configured format version - as left by
\* create(), with or without contents, and by the appends of applyDelta() -
\* returns STATUS_OK.
ValidDocumentOk ==
  [][ \A p \in Procs :
        (Validated(p) /\ LayoutValid) => proc'[p].status = STATUS_OK
    ]_vars

\* C22: a validationStatus() call that reads a stored format version other
\* than the configured one returns STATUS_MIGRATE, whatever the stored
\* revision number and changes are.
FormatVersionGating ==
  [][ \A p \in Procs :
        ( /\ proc[p].pc = "validate_metainfo" /\ StepOf(p)
          /\ formatVersion # NoVersion
          /\ formatVersion # FORMAT_VERSION ) =>
          /\ proc'[p].pc = "done"
          /\ proc'[p].status = STATUS_MIGRATE
    ]_vars

\* C23: on a document whose stored format version is not the configured
\* one, no step of an applyDelta() call changes the stored changes or the
\* revision number, and no applyDelta() call returns.
MigrateRefusesMutations ==
  [][ \A p \in Procs :
        ( /\ proc[p].kind = "applyDelta" /\ StepOf(p)
          /\ fileExists
          /\ formatVersion # NoVersion
          /\ formatVersion # FORMAT_VERSION ) =>
          /\ UNCHANGED fileVars
          /\ proc'[p].pc # "done"
    ]_vars

\* Some change of revisions 0..N cannot be read - it is missing or does not
\* decode - or a change is stored at one of the revisions N+1..N+10.
Unreadable(N) ==
  \/ \E i \in 0..N : i \notin DOMAIN changes \/ changes[i] = Undecodable
  \/ \E n \in (N + 1)..(N + 10) : n \in DOMAIN changes

\* Some readable change of revisions 0..N carries another revision number
\* than its own, or change 0 is not empty.
Mislabelled(N) ==
  \/ \E i \in (0..N) \cap DOMAIN changes :
       changes[i] # Undecodable /\ changes[i].revNum # i
  \/ /\ 0 \in DOMAIN changes
     /\ changes[0] # Undecodable
     /\ ~isEmpty(changes[0].delta)

\* C24: validationStatus() returns STATUS_NOT_FOUND exactly when the file
\* does not exist, and STATUS_ERROR for an existing file of the configured
\* format version with stored revision number N whenever a change of 0..N
\* is missing or undecodable or carries another revision number, change 0
\* is not empty, or a change is stored at one of N+1..N+10.
ValidationDetects ==
  [][ \A p \in Procs :
        Validated(p) =>
          /\ proc'[p].status = STATUS_NOT_FOUND <=> ~fileExists
          /\ ( /\ fileExists
               /\ formatVersion = FORMAT_VERSION
               /\ revisionNumber >= 0
               /\ Unreadable(revisionNumber) \/ Mislabelled(revisionNumber) )
               => proc'[p].status = STATUS_ERROR
    ]_vars

\* C24, amended: validationStatus() returns STATUS_NOT_FOUND exactly when
\* the file does not exist, and STATUS_ERROR for an existing file of the
\* configured format version with stored revision number N whenever a
\* change of 0..N is missing or undecodable or a change is stored at one of
\* N+1..N+10; for N >= 1 it returns STATUS_OK in every other case, whatever
\* revision numbers the changes carry and whether or not change 0 is empty.
ValidationReadable ==
  [][ \A p \in Procs :
        Validated(p) =>
          /\ proc'[p].status = STATUS_NOT_FOUND <=> ~fileExists
          /\ ( /\ fileExists
               /\ formatVersion = FORMAT_VERSION
               /\ revisionNumber >= 0 ) =>
               /\ Unreadable(revisionNumber) => proc'[p].status = STATUS_ERROR
               /\ (revisionNumber >= 1 /\ ~Unreadable(revisionNumber)) =>
                    proc'[p].status = STATUS_OK
    ]_vars

\* A validation has returned STATUS_ERROR for a file of the configured
\* format version whose changes up to the revision number are all stored
\* and decode, because of a change stored ten revisions past the revision
\* number.
FarChangeDetected ==
  \E p \in Procs :
    /\ proc[p].status = STATUS_ERROR
    /\ formatVersion = FORMAT_VERSION
    /\ revisionNumber >= 1
    /\ \A i \in 0..revisionNumber :
         i \in DOMAIN changes /\ changes[i] # Undecodable
    /\ (revisionNumber + 1) \notin DOMAIN changes
    /\ (revisionNumber + 10) \in DOMAIN changes

\* Caller q's call has failed because a stored change was missing or did
\* not decode.
CorruptFailure(q) ==
  proc[q].pc = "error" /\ proc[q].error \in {"path_not_found", "undecodable"}

\* Caller p awaits a read of changes.
Reading(p) == proc[p].pc \in {"compose", "server_compose", "after_compose"}

\* The changes caller p's pending read asks for are all stored and decode.
ReadableBatch(p) ==
  LET range == proc[p].reads[Len(proc[p].reads)] IN
  \A n \in range[1]..(range[2] - 1) :
    n \in DOMAIN changes /\ changes[n] # Undecodable

Composing(p, n) == proc[p].pc = "compose" /\ proc[p].revNum = n

Constructing(p, fileId) ==
  proc[p].pc = "getfile_ensure" /\ proc[p].fileId = fileId

\* C27: at most one file instance is ever constructed per ID, all getFile()
\* calls for one ID return the same instance, and _impl_getFile() is never
\* in progress for an ID that has an instance or for which another call of
\* it is in progress.
SingleInstancePerId ==
  /\ \A i, j \in DOMAIN constructed :
       constructed[i] = constructed[j] => i = j
  /\ \A p, q \in Procs :
       ( /\ proc[p].kind = "getFile" /\ proc[p].pc = "done"
         /\ proc[q].kind = "getFile" /\ proc[q].pc = "done"
         /\ proc[p].fileId = proc[q].fileId ) => proc[p].file = proc[q].file
  /\ \A p, q \in Procs, fileId \in FileIds :
       Constructing(p, fileId) =>
         /\ fileId \notin DOMAIN files
         /\ Constructing(q, fileId) => p = q

\* Two callers have got the same file, for which a third asked while it was
\* being constructed and now waits for its turn to return.
ConcurrentRequestsShared ==
  \E p, q, w \in Procs :
    /\ p # q /\ p # w /\ q # w
    /\ proc[p].kind = "getFile" /\ proc[p].pc = "done"
    /\ proc[q].kind = "getFile" /\ proc[q].pc = "done"
    /\ proc[p].fileId = proc[q].fileId
    /\ proc[p].file = proc[q].file
    /\ proc[w].pc = "getfile_share" /\ proc[w].fileId = proc[p].fileId

\* C28: the timestamps of the stored changes do not decrease along the log:
\* of two changes after change 0, up to the head, the one with the lower
\* revision number has the lower or the same timestamp.
TimestampsMonotonic ==
  \A i, j \in DOMAIN changes :
    (0 < i /\ i < j /\ j <= revisionNumber) =>
      changes[i].timestamp <= changes[j].timestamp

\* A call that lost an append race has committed its change in a later
\* attempt, with a later timestamp than the change it lost to.
RetriedChangeStamped ==
  \E p \in Procs, j \in DOMAIN origin :
    /\ j >= 2
    /\ origin[j].proc = p
    /\ origin[j].baseRevNum = j - 2
    /\ (j - 1) \in DOMAIN origin /\ origin[j - 1].proc # p
    /\ origin[j - 1].baseRevNum = j - 2
    /\ changes[j - 1].timestamp < changes[j].timestamp

\* Caller p awaits a read of the range of changes it is reading through.
ReadingRange(p) ==
  proc[p].pc \in {"compose", "after_compose", "validate_changes"}

\* C29: every read transaction issued for changes asks for at least one and
\* at most 20 of them; the transactions of one range follow one another
\* without gap or overlap from the start of the range, and the reading ends,
\* without an error, when a transaction has reached the end of the range.
ReadsBatched ==
  [][ \A p \in Procs :
        LET reads == proc'[p].reads IN
        /\ \A k \in DOMAIN reads :
             /\ reads[k][1] < reads[k][2]
             /\ reads[k][2] - reads[k][1] <= 20
             /\ k = 1 => reads[k][1] = proc'[p].startInclusive
             /\ k > 1 => reads[k][1] = reads[k - 1][2]
             /\ reads[k][2] <= proc'[p].endExclusive
        /\ (ReadingRange(p) /\ StepOf(p)) =>
             /\ proc'[p].pc # "error"
             /\ proc'[p].status # STATUS_ERROR
             /\ proc'[p].pc # proc[p].pc =>
                  proc[p].reads[Len(proc[p].reads)][2] = proc[p].endExclusive
    ]_vars

\* A snapshot() call has issued its third read transaction, which is the
\* last of its range and shorter than the two before it.
ThirdBatchIssued ==
  \E p \in Procs :
    /\ proc[p].pc = "compose"
    /\ Len(proc[p].reads) = 3
    /\ proc[p].reads[1][2] - proc[p].reads[1][1] = 20
    /\ proc[p].reads[3][2] = proc[p].endExclusive
    /\ proc[p].reads[3][2] - proc[p].reads[3][1] < 20

\* Caller p's wait in deltaAfter() ends in this step although the file has
\* not changed since the file revision the call read: the wait timed out.
WaitTimedOut(p) ==
  /\ proc[p].pc = "after_wait"
  /\ StepOf(p)
  /\ fileRevNum <= proc[p].fileRevNum

OpsIn(args, categories) ==
  {i \in 1..Len(args) : OpCategory(args[i]) \in categories}
\* The positions of the operations of the given name in args.
OpsNamed(args, name) == {i \in 1..Len(args) : args[i] = name}

\* The operation list breaks one of the combination restrictions.
Restricted(args) ==
  \/ /\ OpsIn(args, {CAT_WAIT}) # {}
     /\ OpsIn(args, {CAT_READ, CAT_DELETE, CAT_WRITE}) # {}
  \/ Cardinality(OpsIn(args, {CAT_WAIT})) > 1
  \/ Cardinality(OpsNamed(args, "timeout")) > 1
  \/ Cardinality(OpsNamed(args, "revNum")) > 1

\* C31: the TransactionSpec constructor fails for every operation list that
\* contains a wait operation together with a read or modification
\* operation, more than one wait operation, more than one timeout
\* operation, or more than one revNum operation.
ConstructorRejects ==
  (transactionSpec.constructed /\ Restricted(transactionSpec.args))
    => transactionSpec.error # "none"

\* The reaper has removed caret c.
Reaped(c) == c \in DOMAIN carets /\ carets[c].state = "reaped"

\* Caret c is live and its last update is more than the idle threshold ago.
LongIdle(c) ==
  /\ c \in DOMAIN carets
  /\ carets[c].state = "live"
  /\ clock - carets[c].lastUpdate > IDLE_THRESHOLD

\* C32: a live caret with no update for longer than the idle threshold is
\* eventually out of the caret snapshot unless it is updated first; a caret
\* the reaper removed is in no later snapshot; and the reaper removes no
\* caret whose last update is within the threshold.
IdleCaretsReaped ==
  /\ \A c \in CaretIds : LongIdle(c) ~> ~LongIdle(c)
  /\ [][\A c \in CaretIds :
          /\ Reaped(c) => (Reaped(c)' /\ c \notin CaretSnapshot')
          /\ (~Reaped(c) /\ Reaped(c)') =>
               clock - carets[c].lastUpdate > IDLE_THRESHOLD]_vars

\* The reaper has removed a caret that had been updated after its session
\* began, while a caret updated within the threshold is still live.
CaretReaped ==
  \E c, d \in CaretIds :
    /\ Reaped(c) /\ carets[c].lastUpdate > 0
    /\ d \in CaretSnapshot /\ clock - carets[d].lastUpdate <= IDLE_THRESHOLD

\* The applyDelta call of p has appended the change at its revNum: it is in
\* the snapshot read that follows its append.
HasAppended(p) ==
  /\ proc[p].kind = "applyDelta"
  /\ proc[p].phase = "next"
  /\ proc[p].revNum \in DOMAIN origin
  /\ origin[proc[p].revNum].proc = p

\* C33: an applyDelta call that fails with any error has appended nothing:
\* no call that has appended a change ends in an error, and the step in
\* which a call ends in an error writes nothing to the file.
FailureAppendsNothing ==
  [][\A p \in Procs :
       (proc[p].kind = "applyDelta" /\ StepOf(p) /\ proc'[p].pc = "error") =>
         (~HasAppended(p) /\ UNCHANGED fileVars)]_vars

\* The step is the commit of an append by p's applyDelta call.
AppendsIn(p) ==
  proc[p].kind = "applyDelta" /\ StepOf(p) /\ changes' # changes

\* The step is the return of p's applyDelta call with a result for a delta
\* that was not empty, nor empty once rebased.
ReturnsEdit(p) ==
  /\ proc[p].kind = "applyDelta" /\ StepOf(p) /\ proc'[p].pc = "done"
  /\ ~(proc[p].phase = "base" /\ isEmpty(proc[p].delta))
  /\ proc[p].pc # "server_compose"

\* C34: each applyDelta call appends at most one change over all of its
\* attempts: an append by a call adds exactly one change, with the call's
\* author, and is followed in that call by the snapshot read and the return
\* only, with no further append; and a call that returns revision R for a
\* delta that is not empty once rebased has appended the change stored at
\* R, which holds its author.
OneAppendPerCall ==
  [][\A p \in Procs :
       LET pr == proc[p] IN
       /\ AppendsIn(p) =>
            \E R \in DOMAIN changes' \ DOMAIN changes :
              /\ DOMAIN changes' = DOMAIN changes \cup {R}
              /\ \A n \in DOMAIN changes : changes'[n] = changes[n]
              /\ changes'[R].authorId = pr.authorId
              /\ ~isEmpty(changes'[R].delta)
              /\ ~HasAppended(p)
              /\ \/ proc'[p].pc = "done" /\ proc'[p].result.revNum = R
                 \/ HasAppended(p)' /\ proc'[p].revNum = R
       /\ (HasAppended(p) /\ StepOf(p)) =>
            /\ changes' = changes
            /\ \/ proc'[p].pc = "error"
               \/ proc'[p].pc = "done" /\ proc'[p].result.revNum = pr.revNum
               \/ HasAppended(p)' /\ proc'[p].revNum = pr.revNum
       /\ ReturnsEdit(p) =>
            LET R == proc'[p].result.revNum IN
            /\ AppendsIn(p) \/ HasAppended(p)
            /\ R \in DOMAIN changes'
            /\ changes'[R].authorId = AuthorOf(p)
            /\ origin'[R].proc = p
    ]_vars

\* Two calls with the same base ran concurrently and both returned: one
\* appended at R - 1 and the other, having lost the race for it, at R.
ConcurrentEditsBothStored ==
  \E p, q \in Procs, R \in DOMAIN origin :
    /\ p # q
    /\ proc[p].kind = "applyDelta" /\ proc[p].pc = "done"
    /\ proc[q].kind = "applyDelta" /\ proc[q].pc = "done"
    /\ proc[p].result.revNum = R /\ origin[R].proc = p
    /\ R - 1 \in DOMAIN origin /\ origin[R - 1].proc = q
    /\ proc[q].result.revNum = R - 1
    /\ origin[R].baseRevNum = origin[R - 1].baseRevNum

\* The step is a call of allowTrafficAt().
SignalAsked == signalCalls' # signalCalls

\* C35: every allowTrafficAt call made while the server is shutting down or
\* unhealthy returns false, for any time that is a time (not negative, not
\* before the time of the call before) and any load factor, and returns
\* nothing for any other; and once shuttingDown() has been called the
\* server is shutting down for ever, whatever health and loadFactor calls
\* follow.
StopConditions ==
  [][ /\ (SignalAsked /\ (trafficSignal.shuttingDown \/ ~trafficSignal.healthy))
           => /\ signalCalls'.outcome # "true"
              /\ ( /\ signalCalls'.timeMsec >= 0
                   /\ signalCalls'.timeMsec >= trafficSignal.currentTimeMsec )
                   => signalCalls'.outcome = "false"
      /\ trafficSignal.shuttingDown => trafficSignal'.shuttingDown
    ]_vars

\* After shuttingDown(), with the server healthy again and no load, a call
\* at a later time returned false.
StoppedForGood ==
  /\ trafficSignal.shuttingDown /\ trafficSignal.healthy
  /\ trafficSignal.loadFactor = 0
  /\ signalCalls.outcome = "false" /\ signalCalls.timeMsec > 0
  /\ signalCalls.timeMsec = trafficSignal.currentTimeMsec

\* C36: when allowTrafficAt(t) has returned true after the call before it
\* returned false, every call at a time t' with t <= t' < t + 60,000 msec
\* made while the server is healthy and not shutting down returns true,
\* whatever the load factor; and load alone never stops the signal: every
\* call made while the server is healthy and not shutting down returns
\* true.
MinimumAllowTime ==
  [][ (SignalAsked /\ signalCalls'.outcome \in {"true", "false"}
         /\ trafficSignal.healthy /\ ~trafficSignal.shuttingDown) =>
        /\ ( /\ signalCalls.goAtMsec # NoTime
             /\ signalCalls.goAtMsec <= signalCalls'.timeMsec
             /\ signalCalls'.timeMsec <
                  signalCalls.goAtMsec + MINIMUM_TRAFFIC_ALLOW_TIME_MSEC )
             => signalCalls'.outcome = "true"
        /\ signalCalls'.outcome = "true"
    ]_vars

\* The signal went from false to true at some time, and a call less than
\* the minimum allow time later, under twice the heavy load, returned true.
AllowedUnderLoad ==
  /\ signalCalls.goAtMsec # NoTime
  /\ signalCalls.timeMsec > signalCalls.goAtMsec
  /\ signalCalls.timeMsec <
       signalCalls.goAtMsec + MINIMUM_TRAFFIC_ALLOW_TIME_MSEC
  /\ signalCalls.outcome = "true"
  /\ trafficSignal.loadFactor = 200
  /\ trafficSignal.currentTimeMsec = signalCalls.timeMsec

\* C40: VersionNumber.check(value, max) accepts value exactly when it is a
\* non-negative integer and, if max is given, value <= max: for every
\* integer max >= 0 and every value > max the check fails with a bad-value
\* error instead of returning value.
CheckAcceptsUpToMax ==
  versionCheck.called =>
    ( versionCheck.outcome = "value" <=>
        /\ versionCheck.value.type = "number"
        /\ versionCheck.value.n >= 0
        /\ versionCheck.max # Undefined
             => versionCheck.value.n <= versionCheck.max )

\* C39: getSessionProxy() always resolves to the same proxy instance and
\* sets the session up only the first time it is called, for any number of
\* sequential or concurrent calls: the DocSession makes one set-up request
\* at most, the server sets up one session and one caret at most, and all
\* the calls that have returned have returned the proxy of that request.
SessionSetUpOnce ==
  /\ Len(docSession.promises) <= 1
  /\ Len(serverSessions) <= 1
  /\ \A p \in SessionCallers :
       sessionCalls[p].pc = "done" => sessionCalls[p].proxy = 1


\* The calls of _send() made in this step (the new entries of apiCalls).
NewApiCalls == (DOMAIN apiCalls') \ (DOMAIN apiCalls)

\* The open event of the socket the client holds arrives in this step.
ClientSocketOpens ==
  /\ apiClient.ws # 0
  /\ sockets[apiClient.ws].readyState = "CONNECTING"
  /\ sockets'[apiClient.ws].readyState = "OPEN"

\* C37: a call made while the socket is not ready for traffic (no socket
\* yet or no socket any more, or a socket that is connecting) is enqueued
\* and does not fail: it is pending and its payload is the last of the
\* pending queue; and when the client's socket opens, the queued payloads
\* are sent on it once each, in the order of their calls, and the queue
\* is emptied, so that every later call's message comes after them.
CallsEnqueuedUntilOpen ==
  [][/\ \A i \in NewApiCalls :
          apiCalls'[i].wsState \in {"null", "CONNECTING"} =>
            /\ apiCalls'[i].state = "pending"
            /\ apiClient'.pendingPayloads # <<>>
            /\ apiClient'.pendingPayloads[Len(apiClient'.pendingPayloads)].call = i
     /\ ClientSocketOpens =>
          /\ sockets'[apiClient.ws].sent =
               sockets[apiClient.ws].sent \o apiClient.pendingPayloads
          /\ apiClient'.pendingPayloads = <<>>]_vars

\* A termination happens in this step: the error or the close event of
\* some socket is handled.
TerminationHandled ==
  \E s \in DOMAIN sockets :
    \/ sockets'[s].errorFired # sockets[s].errorFired
    \/ sockets'[s].closeFired # sockets[s].closeFired

\* C38: every call's promise is settled at most once and a settled call
\* stays as it is; a call is resolved only by a response that arrived on
\* the connection the call was made on; and after the error or close event
\* of a socket no call is pending and the ID counter, the callbacks and the
\* pending queue are as _resetConnection() leaves them.
CallsSettledOnce ==
  /\ [](\A i \in DOMAIN apiCalls :
          /\ apiCalls[i].settled <= 1
          /\ apiCalls[i].state = "resolved" =>
               apiCalls[i].settledBy = apiCalls[i].conn)
  /\ [][/\ \A i \in DOMAIN apiCalls :
             apiCalls[i].state \in {"resolved", "rejected"} =>
               apiCalls'[i] = apiCalls[i]
        /\ TerminationHandled =>
             /\ \A i \in DOMAIN apiCalls' : apiCalls'[i].state # "pending"
             /\ apiClient'.nextId = 0
             /\ apiClient'.callbacks = <<>>
             /\ apiClient'.pendingPayloads = <<>>]_vars

====
